---- MODULE Spec2Model ----
(***************************************************************************)
(* State-machine model of the market-data pipeline: the ring buffer and    *)
(* the tick batcher (src/tick_buffer.py: RingBuffer, TickBuffer) and the   *)
(* OHLCV aggregator (TickAggregator); the feed handlers: the supervisor    *)
(* loop FeedHandler.start (src/base_handler.py), the subscription state of *)
(* the vendor handlers and the packet sequencing of CMEHandler             *)
(* (src/handlers); FeedStats.update (src/models.py); and the per-feed      *)
(* state kept by FeedManager (src/feed_handler/feed_manager.py).           *)
(*                                                                         *)
(* Ticks are modelled by their identity: the n-th tick offered to a queue  *)
(* is the integer n.  Python's None is the value None below.  The asyncio  *)
(* scheduler is cooperative: a coroutine runs without interruption up to   *)
(* its next await, so every action is the code between two suspension     *)
(* points.  The latency fields of BufferStats are left out: they depend on *)
(* the wall clock only and no other field depends on them.                 *)
(***************************************************************************)
EXTENDS Integers, Sequences, FiniteSets, TLC

\* ------------------------------------------------------------- bounds
\* Largest capacity requested of a ring buffer used directly.
MaxRequested == 4
\* Number of push calls made on a ring buffer used directly.
MaxRingPush == 6
\* Largest max_size handed to pop_batch on a ring buffer used directly.
MaxPopBatch == 3

\* Largest buffer_capacity a TickBuffer is constructed with.
MaxCapacity == 4
\* Largest batch_size a TickBuffer is constructed with.
MaxBatch == 4
\* Number of TickBuffer.push calls made in a run.
MaxPush == 9
\* The count of timer wake-ups is kept up to this value.
MaxFires == 2

\* Number of TickAggregator calls (process_tick, flush_all) made in a run.
MaxAggCalls == 4
\* Largest tick timestamp fed to the aggregator.
MaxTs == 2
\* TickAggregator._timeframe_ns, in the unit of the tick timestamps.
TimeframeNs == 2

\* The count of consecutive connection failures is kept up to this value.
MaxFails == 8
\* Longest subscription list a handler is let to grow to.
MaxSubsLen == 4
\* Number of FeedStats.update calls made in a run.
MaxUpdates == 4
\* Number of ticks per symbol a handler's read loop counts in its stats.
MaxTicks == 2
\* Number of datagrams delivered to a CME handler that is reading.
MaxDatagrams == 3
\* Number of reads a vendor's read loop makes in a run.
MaxReads == 2
\* Number of ticks a FeedManager routes in a run.
MaxRouted == 2
\* Failures in a row of the connection of a FeedManager's feed.
MaxFanFails == 1
\* Number of messages enqueued in a RedisPublisher in a run.
MaxMessages == 4
\* PublisherConfig.batch_size of the publisher under study.
PubBatchSize == 2
\* Number of _reconnect tasks that exist at a time.
MaxReconnects == 2
\* Largest sequence number carried by a tick given to FeedStats.update.
MaxSeq == 4
\* Number of events the Bloomberg session gives the worker thread in a run.
MaxBbgEvents == 4
\* maxsize of the BloombergHandler's _tick_queue under study (100000 in the
\* source).
BbgQueueSize == 2
\* Number of packets given to CMEHandler.parse_packet in a run.
MaxPackets == 4
\* FeedHandler._reconnect_delay as constructed, in seconds.
InitialReconnectDelay == 1
\* FeedHandler._max_reconnect_delay, in seconds.
MaxReconnectDelay == 60

\* Python's None: an absent Optional[int] (prices, sizes and ticks are >= 0).
None == -1
\* A key that a message does not have ('"bid_px" in msg' is false).
Absent == -2
\* A field value that is no number: a JSON string or null.
NotANumber == -3

VARIABLES
    ring,           \* a RingBuffer: capacity, buffer, write_idx, read_idx
    rb_requested,   \* history: the capacity argument the ring was created with
    rb_offered,     \* history: number of push calls made directly on the ring
    rb_accepted,    \* history: the ticks whose push returned True, in order
    rb_popped,      \* history: the ticks returned by pop / pop_batch, in order
    batch_size,     \* TickBuffer._batch_size
    running,        \* TickBuffer._running
    stats,          \* TickBuffer._stats (BufferStats, without the latencies)
    flush_task,     \* TickBuffer._flush_task: "none", or where _flush_loop is
    cancel_req,     \* cancel() was called on the flush task and not yet delivered
    pc,             \* per producer task: "idle", or "in_sink" inside push
    stop_pc,        \* where the caller of TickBuffer.stop is
    held,           \* per task: the batch whose on_batch call it is awaiting
    accepted,       \* history: the ticks whose TickBuffer.push returned True
    sunk,           \* history: the batches handed to on_batch, in call order
    first_flush_at, \* history: ticks_received when the first batch was popped
    timer_fires,    \* history: wake-ups of the flush timer (up to MaxFires)
    bars,           \* TickAggregator._bars: the current bars, in insertion order
    emitted,        \* history: the bars handed to on_bar, in call order
    agg_hist,       \* history: symbol, bar_ts, price, size of each priced tick
    agg_call,       \* history: the last aggregator call made
    agg_tick,       \* history: the tick of the last process_tick call
    agg_calls,      \* history: number of aggregator calls made
    agg_epoch,      \* history: number of flush_all calls made
    stop_calls,     \* history: number of TickBuffer.stop calls made (up to 2)
    late_push,      \* history: push was called after the first stop ended
    h_kind,         \* the class of the feed handler
    h_running,      \* FeedHandler._running
    h_connected,    \* FeedHandler._connected
    h_resource,     \* the handler holds a writer, session or transport
    reconnect_delay, \* FeedHandler._reconnect_delay
    subscriptions,  \* FeedHandler._subscriptions, a list
    h_stats,        \* FeedHandler._stats: symbol -> FeedStats
    books,          \* CMEHandler._books: the symbols that have a book
    sup_pc,         \* where the task running FeedHandler.start is
    sup_cancel,     \* cancel() was called on that task and not yet delivered
    fails,          \* history: failures since the last successful connect
    slept,          \* history: the duration of the last backoff sleep
    disconnect_calls, \* history: disconnect() was called by the supervisor
    h_stopped,      \* history: FeedHandler.stop was called
    h_cancelled,    \* history: the supervisor task was cancelled
    sub_ops,        \* history: the subscribe / unsubscribe calls made
    m_vendor,       \* the vendor of the feed configured in the FeedManager
    m_state,        \* FeedManager._states[vendor]
    m_has_handler,  \* vendor in FeedManager._handlers
    m_task,         \* vendor in FeedManager._handler_tasks
    m_pc,           \* where the caller of FeedManager.start / stop is
    m_connect_failed, \* history: the connect of _start_feed failed
    fs,             \* a FeedStats (without the latency fields)
    fs_hist,        \* history: the sequence_num of each tick given to update
    expected_seq,   \* CMEHandler._expected_seq
    gaps,           \* CMEHandler._gaps
    cme_hist,       \* history: the packets given to parse_packet
    cme_out,        \* history: the ticks parse_packet returned, per packet
    cme_read,       \* number of ticks _read_messages took off the tick queue
    rd_pc,          \* where a vendor's _read_messages is: reading, ended, raised
    rd_in,          \* history: the last frame, record, event or entry read
    rd_tick,        \* history: the tick that read yielded, or None
    rd_count,       \* history: number of reads made
    m_symbols,      \* FeedConfig.symbols of the feed configured in the FeedManager
    pub_connected,  \* RedisPublisher._connected
    pub_batch,      \* RedisPublisher._batch, the messages by their enqueue number
    pub_lock,       \* who holds _batch_lock: "free", or the task that flushes
    pub_inflight,   \* the local batch of the _flush_locked awaiting pipe.execute()
    pub_published,  \* RedisPublisher._messages_published
    pub_errors,     \* RedisPublisher._publish_errors
    pub_flushes,    \* RedisPublisher._flushes
    pub_enqueued,   \* history: number of messages enqueued
    pub_issued,     \* history: the messages of the pipelines that were executed
    pub_lost,       \* history: the messages of the pipelines that failed
    pub_recon,      \* the _reconnect tasks: how many are created, in ping, asleep
    rt_cfg,         \* FeedManager: whether _buffer, _on_tick, _aggregator are set
    m_total_ticks,  \* FeedManager._total_ticks
    rt_pc,          \* where _handle_tick is, inside the supervisor's on_tick
    rt_tick,        \* the tick _handle_tick was called with
    rt_log,         \* history: what _handle_tick did with each tick, in order
    pt_pc,          \* per task: "idle", or "on_bar" inside process_tick
    pt_tick,        \* per task: the tick of the process_tick it is inside
    bb_queue,       \* BloombergHandler._tick_queue: ticks by number, or None
    bb_running,     \* the BloombergHandler's _running
    bb_worker,      \* where the thread running _read_events_sync is
    bb_reader,      \* where the supervisor is inside _read_messages
    bb_disc,        \* where the supervisor is inside disconnect
    bb_events,      \* history: number of events the session gave the worker
    bb_dropped,     \* history: number of ticks the worker dropped
    pub_stop        \* where the caller of RedisPublisher.stop is

ringVars == <<ring, rb_requested, rb_offered, rb_accepted, rb_popped>>
ringHist == <<rb_requested, rb_offered, rb_accepted, rb_popped>>
bufVars == <<batch_size, running, stats, flush_task, cancel_req, pc, stop_pc,
             held, accepted, sunk, first_flush_at, timer_fires, stop_calls,
             late_push>>
aggVars == <<bars, emitted, agg_hist, agg_call, agg_tick, agg_calls, agg_epoch>>
handlerVars == <<h_kind, h_running, h_connected, h_resource, reconnect_delay,
                 subscriptions, h_stats, books>>
supVars == <<sup_pc, sup_cancel, fails, slept, disconnect_calls, h_stopped,
             h_cancelled>>
mgrVars == <<m_vendor, m_state, m_has_handler, m_task, m_pc, m_connect_failed>>
statVars == <<fs, fs_hist>>
cmeVars == <<expected_seq, gaps, cme_hist, cme_out, cme_read>>
pipeVars == <<ringVars, bufVars, aggVars>>
readVars == <<rd_pc, rd_in, rd_tick, rd_count>>
cfgVars == <<m_symbols>>
pubVars == <<pub_connected, pub_batch, pub_lock, pub_inflight, pub_published,
             pub_errors, pub_flushes, pub_enqueued, pub_issued, pub_lost,
             pub_recon>>
routeVars == <<rt_cfg, m_total_ticks, rt_pc, rt_tick, rt_log>>
raceVars == <<pt_pc, pt_tick>>
bbgVars == <<bb_queue, bb_running, bb_worker, bb_reader, bb_disc, bb_events,
             bb_dropped>>
stopVars == <<pub_stop>>
moreVars == <<raceVars, bbgVars, stopVars>>
extVars == <<readVars, cfgVars, pubVars, routeVars, moreVars>>
coreVars == <<pipeVars, handlerVars, supVars, sub_ops, mgrVars, statVars, cmeVars>>
notRead == <<coreVars, cfgVars, pubVars, routeVars, moreVars>>
notCfg == <<readVars, pubVars, routeVars, moreVars>>
notPub == <<coreVars, readVars, cfgVars, routeVars, moreVars>>
notRoute == <<readVars, cfgVars, pubVars, moreVars>>
notRace == <<ringVars, bufVars, handlerVars, supVars, sub_ops, mgrVars,
            statVars, cmeVars, readVars, cfgVars, pubVars, routeVars, bbgVars,
            stopVars>>
notBbg == <<coreVars, readVars, cfgVars, pubVars, routeVars, raceVars, stopVars>>
notPubStop == <<coreVars, readVars, cfgVars, routeVars, raceVars, bbgVars>>
feedVars == <<handlerVars, supVars, sub_ops, mgrVars, statVars, cmeVars, extVars>>
\* What the actions of one component leave alone.
notRing == <<bufVars, aggVars, feedVars>>
notBuf == <<ringHist, aggVars, feedVars>>
notAgg == <<ringVars, bufVars, feedVars>>
notSup == <<pipeVars, sub_ops, mgrVars, statVars, cmeVars, extVars>>
notSubs == <<pipeVars, supVars, mgrVars, statVars, cmeVars, extVars>>
notStat == <<pipeVars, handlerVars, supVars, sub_ops, mgrVars, cmeVars, extVars>>
notCme == <<pipeVars, handlerVars, supVars, sub_ops, mgrVars, statVars, extVars>>
notMgr == <<pipeVars, sub_ops, statVars, cmeVars, extVars>>
vars == <<ring, rb_requested, rb_offered, rb_accepted, rb_popped, batch_size, running, stats,
          flush_task, cancel_req, pc, stop_pc, held, accepted, sunk,
          first_flush_at, timer_fires, bars, emitted, agg_hist, agg_call,
          agg_tick, agg_calls, agg_epoch, stop_calls, late_push, feedVars>>

\* The tasks that push ticks (one per feed handler) and all tasks that flush.
Producers == {"h1", "h2"}
Tasks == Producers \cup {"timer", "stop"}

\* ------------------------------------------------------- RingBuffer
\* int.bit_length()
RECURSIVE BitLength(_)
BitLength(k) == IF k <= 0 THEN 0 ELSE 1 + BitLength(k \div 2)

RECURSIVE Pow2(_)
Pow2(n) == IF n = 0 THEN 1 ELSE 2 * Pow2(n - 1)

\* x & self._mask, the mask being capacity - 1 with capacity a power of two
Masked(x, rb) == x % rb.capacity

\* A constructor that rounds up from capacity instead of capacity - 1.
RingNewFromCapacity(capacity) ==
    LET cap == Pow2(BitLength(capacity))
    IN  [capacity |-> cap,
         buffer |-> [i \in 0 .. cap - 1 |-> None],
         write_idx |-> 0,
         read_idx |-> 0]

\* RingBuffer.__init__
RingNew(capacity) ==
    LET cap == Pow2(BitLength(capacity - 1))
    IN  [capacity |-> cap,
         buffer |-> [i \in 0 .. cap - 1 |-> None],
         write_idx |-> 0,
         read_idx |-> 0]

\* RingBuffer.size
RingSize(rb) == Masked(rb.write_idx - rb.read_idx, rb)

\* RingBuffer.is_full
RingIsFull(rb) == RingSize(rb) = rb.capacity - 1

\* RingBuffer.is_empty
RingIsEmpty(rb) == rb.write_idx = rb.read_idx

\* A push that never reports a full buffer and overwrites the oldest slot.
RingPushOverwrite(rb, tick) ==
    [ok |-> TRUE,
     rb |-> [rb EXCEPT !.buffer[rb.write_idx] = tick,
                       !.write_idx = Masked(rb.write_idx + 1, rb)]]

\* RingBuffer.push: the result and the buffer afterwards
RingPush(rb, tick) ==
    LET next_write == Masked(rb.write_idx + 1, rb)
    IN  IF next_write = rb.read_idx
        THEN [ok |-> FALSE, rb |-> rb]
        ELSE [ok |-> TRUE,
              rb |-> [rb EXCEPT !.buffer[rb.write_idx] = tick,
                                !.write_idx = next_write]]

\* A pop that hands out the newest tick instead of the oldest.
RingPopNewest(rb) ==
    IF rb.read_idx = rb.write_idx
    THEN [tick |-> None, rb |-> rb]
    ELSE LET last == Masked(rb.write_idx - 1, rb)
         IN  [tick |-> rb.buffer[last],
              rb |-> [rb EXCEPT !.buffer[last] = None, !.write_idx = last]]

\* RingBuffer.pop: the tick (or None) and the buffer afterwards
RingPop(rb) ==
    IF rb.read_idx = rb.write_idx
    THEN [tick |-> None, rb |-> rb]
    ELSE [tick |-> rb.buffer[rb.read_idx],
          rb |-> [rb EXCEPT !.buffer[rb.read_idx] = None,
                            !.read_idx = Masked(rb.read_idx + 1, rb)]]

Min(a, b) == IF a <= b THEN a ELSE b

\* The loop of pop_batch: count pops, each tick appended unless it is None.
RECURSIVE PopLoop(_, _, _)
PopLoop(rb, count, batch) ==
    IF count <= 0
    THEN [batch |-> batch, rb |-> rb]
    ELSE LET r == RingPop(rb)
         IN  PopLoop(r.rb, count - 1,
                     IF r.tick # None THEN Append(batch, r.tick) ELSE batch)

\* A pop_batch that takes one tick fewer than it removes from the count.
RingPopBatchShort(rb, max_size) ==
    LET r == PopLoop(rb, Min(max_size, RingSize(rb)), <<>>)
    IN  [batch |-> IF r.batch = <<>> THEN <<>> ELSE Tail(r.batch), rb |-> r.rb]

\* RingBuffer.pop_batch: the batch and the buffer afterwards
RingPopBatch(rb, max_size) ==
    PopLoop(rb, Min(max_size, RingSize(rb)), <<>>)

\* The ticks stored between read_idx and write_idx, oldest first.
RingContents(rb) ==
    [i \in 1 .. RingSize(rb) |-> rb.buffer[Masked(rb.read_idx + i - 1, rb)]]

\* --------------------------------------------- direct use of a RingBuffer
RingHistIdle ==
    /\ rb_offered = 0
    /\ rb_accepted = <<>>
    /\ rb_popped = <<>>

\* TickBuffer.__init__ but for the ring and the batch size
BufStart ==
    /\ running = FALSE
    /\ stats = [ticks_received |-> 0, ticks_processed |-> 0,
                ticks_dropped |-> 0, batches_flushed |-> 0]
    /\ flush_task = "none"
    /\ cancel_req = FALSE
    /\ pc = [p \in Producers |-> "idle"]
    /\ stop_pc = "idle"
    /\ held = [t \in Tasks |-> <<>>]
    /\ accepted = <<>>
    /\ sunk = <<>>
    /\ first_flush_at = 0
    /\ timer_fires = 0
    /\ stop_calls = 0
    /\ late_push = FALSE

\* A tick as the aggregator reads it.
AggTick(ts, sym, payload) ==
    [timestamp_ns |-> ts, symbol |-> sym,
     trade_price |-> payload[1], bid_price |-> payload[2],
     ask_price |-> payload[3], trade_size |-> payload[4],
     price_precision |-> 2]

\* TickAggregator.__init__, constructed with an on_bar sink
AggStart ==
    /\ bars = <<>>
    /\ emitted = <<>>
    /\ agg_hist = <<>>
    /\ agg_call = "none"
    /\ agg_tick = AggTick(0, "ES", <<None, None, None, None>>)
    /\ agg_calls = 0
    /\ agg_epoch = 0

\* The pipeline as constructed, with the smallest ring.
PipeIdle ==
    /\ rb_requested = 1
    /\ ring = RingNew(rb_requested)
    /\ RingHistIdle
    /\ batch_size = 1
    /\ BufStart
    /\ AggStart

\* FeedStats as constructed; the latency fields and last_tick_time_ns are
\* left out: they depend on the wall clock only.
FreshStats == [ticks_received |-> 0, gaps_detected |-> 0, last_sequence |-> 0]

\* An empty dict of FeedStats.
NoStats == [s \in {} |-> FreshStats]

\* FeedHandler.__init__ for a handler of class kind
HandlerNew(kind) ==
    /\ h_kind = kind
    /\ h_running = FALSE
    /\ h_connected = FALSE
    /\ h_resource = FALSE
    /\ reconnect_delay = InitialReconnectDelay
    /\ subscriptions = <<>>
    /\ h_stats = NoStats
    /\ books = {}

\* No task runs FeedHandler.start yet.
SupIdle ==
    /\ sup_pc = "none"
    /\ sup_cancel = FALSE
    /\ fails = 0
    /\ slept = 0
    /\ disconnect_calls = 0
    /\ h_stopped = FALSE
    /\ h_cancelled = FALSE

\* FeedManager.__init__ followed by add_feed for one vendor
MgrNew(vendor) ==
    /\ m_vendor = vendor
    /\ m_state = "STOPPED"
    /\ m_has_handler = FALSE
    /\ m_task = FALSE
    /\ m_pc = "idle"
    /\ m_connect_failed = FALSE

\* FeedStats as constructed
StatIdle ==
    /\ fs = FreshStats
    /\ fs_hist = <<>>

\* The sequence tracking of CMEHandler.__init__
CmeIdle ==
    /\ expected_seq = 0
    /\ gaps = <<>>
    /\ cme_hist = <<>>
    /\ cme_out = <<>>
    /\ cme_read = 0

\* What a vendor's read loop is given: a frame, record, event or entry.
\* shape says what kind of input it is, type is its message, event or entry
\* type, and bid, ask, trade are its price fields.
Input(shape, type, bid, ask, trade) ==
    [shape |-> shape, type |-> type, bid |-> bid, ask |-> ask, trade |-> trade]

\* Tick(...) as a vendor handler builds it: the kind and the three prices.
MakeTick(tick_type, bid_price, ask_price, trade_price) ==
    [tick_type |-> tick_type, bid_price |-> bid_price,
     ask_price |-> ask_price, trade_price |-> trade_price]

NoInput == Input("nothing", "none", None, None, None)
NoTick == MakeTick("none", None, None, None)

\* No vendor read loop has read anything.
ReadIdle ==
    /\ rd_pc = "read"
    /\ rd_in = NoInput
    /\ rd_tick = NoTick
    /\ rd_count = 0

\* RedisPublisher after start(): connected, nothing queued or counted, no
\* flush under way, no reconnect task.
PubStarted ==
    /\ pub_connected = TRUE
    /\ pub_batch = <<>>
    /\ pub_lock = "free"
    /\ pub_inflight = <<>>
    /\ pub_published = 0
    /\ pub_errors = 0
    /\ pub_flushes = 0
    /\ pub_enqueued = 0
    /\ pub_issued = <<>>
    /\ pub_lost = <<>>
    /\ pub_recon = [created |-> 0, ping |-> 0, sleep |-> 0]

\* FeedManager.__init__ with or without on_batch (the batcher) and on_tick,
\* followed or not by enable_aggregation()
RouteNew(buffer, on_tick, aggregator) ==
    /\ rt_cfg = [buffer |-> buffer, on_tick |-> on_tick,
                 aggregator |-> aggregator]
    /\ m_total_ticks = 0
    /\ rt_pc = "idle"
    /\ rt_tick = AggTick(0, "ES", <<None, None, None, None>>)
    /\ rt_log = <<>>

\* No task is inside TickAggregator.process_tick.
RaceIdle ==
    /\ pt_pc = [p \in Producers |-> "idle"]
    /\ pt_tick = [p \in Producers |-> AggTick(0, "ES", <<None, None, None, None>>)]

\* A BloombergHandler as constructed: no worker thread, an empty queue.
BbgIdle ==
    /\ bb_queue = <<>>
    /\ bb_running = FALSE
    /\ bb_worker = "none"
    /\ bb_reader = "none"
    /\ bb_disc = "idle"
    /\ bb_events = 0
    /\ bb_dropped = 0

\* The parts added last, as constructed.
MoreIdle == RaceIdle /\ BbgIdle /\ pub_stop = "idle"

\* The parts of the system that a specification leaves as constructed.
ExtIdle ==
    /\ ReadIdle
    /\ m_symbols = <<"ES">>
    /\ PubStarted
    /\ RouteNew(FALSE, FALSE, FALSE)
    /\ MoreIdle

\* The feed side as constructed.
FeedIdle ==
    /\ HandlerNew("databento")
    /\ SupIdle
    /\ sub_ops = <<>>
    /\ MgrNew("databento")
    /\ StatIdle
    /\ CmeIdle

RingInit ==
    /\ ExtIdle
    /\ rb_requested \in 1 .. MaxRequested
    /\ ring = RingNew(rb_requested)
    /\ RingHistIdle
    /\ batch_size = 1
    /\ BufStart
    /\ AggStart
    /\ FeedIdle

\* ring.push(tick), tick being the next tick offered
RbPush ==
    /\ rb_offered < MaxRingPush
    /\ LET tick == rb_offered + 1
           r == RingPush(ring, tick)
       IN  /\ ring' = r.rb
           /\ rb_offered' = tick
           /\ rb_accepted' = IF r.ok THEN Append(rb_accepted, tick) ELSE rb_accepted
    /\ UNCHANGED <<rb_requested, rb_popped>>
    /\ UNCHANGED notRing

\* ring.pop()
RbPop ==
    /\ LET r == RingPop(ring)
       IN  /\ ring' = r.rb
           /\ rb_popped' = IF r.tick # None THEN Append(rb_popped, r.tick) ELSE rb_popped
    /\ UNCHANGED <<rb_requested, rb_offered, rb_accepted>>
    /\ UNCHANGED notRing

\* ring.pop_batch(max_size)
RbPopBatch ==
    /\ \E max_size \in 0 .. MaxPopBatch :
         LET r == RingPopBatch(ring, max_size)
         IN  /\ ring' = r.rb
             /\ rb_popped' = rb_popped \o r.batch
    /\ UNCHANGED <<rb_requested, rb_offered, rb_accepted>>
    /\ UNCHANGED notRing

RingNext == RbPush \/ RbPop \/ RbPopBatch

SpecRing == RingInit /\ [][RingNext]_vars

\* C2: on a ring buffer, the ticks returned by pop and pop_batch are the
\* accepted ticks in the order they were pushed, none lost and none twice:
\* what was popped followed by what is still stored is exactly the sequence
\* of accepted ticks, and once as many ticks were popped as were accepted
\* the buffer is empty.
C2_FifoNoLossNoDup ==
    /\ rb_popped \o RingContents(ring) = rb_accepted
    /\ \A i, j \in 1 .. Len(rb_popped) : i # j => rb_popped[i] # rb_popped[j]
    /\ Len(rb_accepted) <= rb_offered
    /\ RingSize(ring) <= ring.capacity - 1
    /\ (Len(rb_popped) = Len(rb_accepted) => RingIsEmpty(ring) /\ RingSize(ring) = 0)

\* The indices have wrapped around, a push was refused, and everything
\* accepted has been popped again.
C2_Witness ==
    /\ Len(rb_accepted) > ring.capacity
    /\ Len(rb_accepted) < rb_offered
    /\ rb_popped = rb_accepted
    /\ Len(rb_popped) >= 3

\* The least power of two that is at least n.
LeastPow2(n) ==
    LET powers == {Pow2(k) : k \in 0 .. n}
    IN  CHOOSE c \in powers : c >= n /\ \A d \in powers : d >= n => c <= d

\* C27: a ring created with requested capacity N >= 1 has capacity C, the
\* least power of two >= N; size is (write - read) mod C, is the number of
\* ticks stored, stays within 0 .. C-1, and is_full holds iff size = C-1;
\* a push succeeds exactly when size < C-1, and then stores the tick at the
\* old write index and increases size by one, and otherwise returns False
\* and leaves the contents and both indices unchanged.
C27_CapacityAndPush ==
    /\ [](/\ ring.capacity = LeastPow2(rb_requested)
          /\ RingSize(ring) = (ring.write_idx - ring.read_idx) % ring.capacity
          /\ RingSize(ring) = Len(rb_accepted) - Len(rb_popped)
          /\ RingSize(ring) \in 0 .. ring.capacity - 1
          /\ (RingIsFull(ring) <=> RingSize(ring) = ring.capacity - 1))
    /\ [][rb_offered' = rb_offered + 1 =>
            IF RingSize(ring) < ring.capacity - 1
            THEN /\ rb_accepted' = Append(rb_accepted, rb_offered')
                 /\ ring'.buffer[ring.write_idx] = rb_offered'
                 /\ RingSize(ring') = RingSize(ring) + 1
                 /\ ring'.read_idx = ring.read_idx
            ELSE /\ rb_accepted' = rb_accepted
                 /\ ring' = ring]_vars

\* A ring requested with capacity 3 (not a power of two) is full and has
\* refused a push.
C27_Witness ==
    /\ rb_requested = 3
    /\ ring.capacity = 4
    /\ RingIsFull(ring)
    /\ Len(rb_accepted) < rb_offered

\* ------------------------------------------------------------ TickBuffer
\* TickBuffer.__init__: the ring and the batch size are the caller's choice
BufInit ==
    /\ ExtIdle
    /\ rb_requested \in 1 .. MaxCapacity
    /\ ring = RingNew(rb_requested)
    /\ batch_size \in 1 .. MaxBatch
    /\ RingHistIdle
    /\ BufStart
    /\ AggStart
    /\ FeedIdle

RECURSIVE Flatten(_)
Flatten(batches) ==
    IF batches = <<>> THEN <<>> ELSE Head(batches) \o Flatten(Tail(batches))

\* The ticks of the batches whose on_batch call is in progress.
InSink == {t \in Tasks : held[t] # <<>>}

RECURSIVE SumLen(_)
SumLen(ts) ==
    IF ts = {} THEN 0
    ELSE LET t == CHOOSE x \in ts : TRUE IN Len(held[t]) + SumLen(ts \ {t})

\* The end of _flush that forgets to count the batch.
StatsAfterBatchUncounted(st, batch) ==
    [st EXCEPT !.ticks_processed = @ + Len(batch)]

\* _flush after on_batch returned: the two counters
StatsAfterBatch(st, batch) ==
    [st EXCEPT !.ticks_processed = @ + Len(batch),
               !.batches_flushed = @ + 1]

\* _flush from its first line to the call of on_batch, run by task t on the
\* ring rb when ticks_received is received: pops a batch; an empty batch returns at once, any other is handed
\* to on_batch, which t then awaits.
FlushStart(t, rb, received) ==
    LET r == RingPopBatch(rb, batch_size)
    IN  /\ ring' = r.rb
        /\ IF r.batch = <<>>
           THEN UNCHANGED <<held, sunk, first_flush_at>>
           ELSE /\ held' = [held EXCEPT ![t] = r.batch]
                /\ sunk' = Append(sunk, r.batch)
                /\ first_flush_at' = IF first_flush_at = 0
                                     THEN received
                                     ELSE first_flush_at

\* Whether FlushStart on rb suspends its task in on_batch.
FlushSuspends(rb) == RingPopBatch(rb, batch_size).batch # <<>>

\* TickBuffer.start
StartStep ==
    /\ flush_task = "none"
    /\ stop_pc = "idle"
    /\ running' = TRUE
    /\ flush_task' = "sleeping"
    /\ UNCHANGED <<ring, batch_size, stats, cancel_req, pc, stop_pc,
                   held, accepted, sunk, first_flush_at, timer_fires, stop_calls, late_push>>

Start == StartStep /\ UNCHANGED notBuf

\* TickBuffer.push called by producer p, up to its return or to the await of
\* on_batch inside the count-triggered _flush
PushStep(p) ==
    /\ pc[p] = "idle"
    /\ stats.ticks_received < MaxPush
    /\ LET tick == stats.ticks_received + 1
           r == RingPush(ring, tick)
       IN  IF ~r.ok
           THEN /\ stats' = [stats EXCEPT !.ticks_received = @ + 1,
                                          !.ticks_dropped = @ + 1]
                /\ UNCHANGED <<ring, pc, held, accepted, sunk, first_flush_at>>
           ELSE /\ stats' = [stats EXCEPT !.ticks_received = @ + 1]
                /\ accepted' = Append(accepted, tick)
                /\ IF RingSize(r.rb) >= batch_size
                   THEN /\ FlushStart(p, r.rb, tick)
                        /\ pc' = [pc EXCEPT ![p] = IF FlushSuspends(r.rb)
                                                   THEN "in_sink" ELSE "idle"]
                   ELSE /\ ring' = r.rb
                        /\ UNCHANGED <<pc, held, sunk, first_flush_at>>
    /\ late_push' = (late_push \/ stop_pc \in {"done", "raised"})
    /\ UNCHANGED <<batch_size, running, flush_task, cancel_req,
                   stop_pc, timer_fires, stop_calls>>

Push(p) == PushStep(p) /\ UNCHANGED notBuf

\* on_batch returns to producer p: _flush counts the batch, push returns True
PushSinkReturnStep(p) ==
    /\ pc[p] = "in_sink"
    /\ stats' = StatsAfterBatch(stats, held[p])
    /\ held' = [held EXCEPT ![p] = <<>>]
    /\ pc' = [pc EXCEPT ![p] = "idle"]
    /\ UNCHANGED <<ring, batch_size, running, flush_task, cancel_req,
                   stop_pc, accepted, sunk, first_flush_at, timer_fires, stop_calls, late_push>>

PushSinkReturn(p) == PushSinkReturnStep(p) /\ UNCHANGED notBuf

\* on_batch raises in producer p: the exception leaves _flush and push
PushSinkRaiseStep(p) ==
    /\ pc[p] = "in_sink"
    /\ held' = [held EXCEPT ![p] = <<>>]
    /\ pc' = [pc EXCEPT ![p] = "idle"]
    /\ UNCHANGED <<ring, batch_size, running, stats, flush_task,
                   cancel_req, stop_pc, accepted, sunk, first_flush_at,
                   timer_fires, stop_calls, late_push>>

PushSinkRaise(p) == PushSinkRaiseStep(p) /\ UNCHANGED notBuf

\* _flush_loop: the sleep ends; a non-empty ring is flushed
TimerFire ==
    /\ flush_task = "sleeping"
    /\ ~cancel_req
    /\ timer_fires' = Min(timer_fires + 1, MaxFires)
    /\ IF ~RingIsEmpty(ring)
       THEN /\ FlushStart("timer", ring, stats.ticks_received)
            /\ flush_task' = IF FlushSuspends(ring) THEN "in_sink" ELSE "sleeping"
       ELSE UNCHANGED <<ring, held, sunk, first_flush_at, flush_task>>
    /\ UNCHANGED <<batch_size, running, stats, cancel_req, pc,
                   stop_pc, accepted, stop_calls, late_push, notBuf>>

\* on_batch returns to the timer task: the batch is counted, the loop goes on
TimerSinkReturn ==
    /\ flush_task = "in_sink"
    /\ ~cancel_req
    /\ stats' = StatsAfterBatch(stats, held["timer"])
    /\ held' = [held EXCEPT !["timer"] = <<>>]
    /\ flush_task' = IF running THEN "sleeping" ELSE "finished"
    /\ UNCHANGED <<ring, batch_size, running, cancel_req, pc,
                   stop_pc, accepted, sunk, first_flush_at, timer_fires, stop_calls, late_push, notBuf>>

\* on_batch raises in the timer task: _flush_loop catches CancelledError
\* only, so the exception ends the task
TimerSinkRaise ==
    /\ flush_task = "in_sink"
    /\ ~cancel_req
    /\ held' = [held EXCEPT !["timer"] = <<>>]
    /\ flush_task' = "failed"
    /\ UNCHANGED <<ring, batch_size, running, stats, cancel_req, pc,
                   stop_pc, accepted, sunk, first_flush_at, timer_fires, stop_calls, late_push, notBuf>>

\* The timer task receives the CancelledError of stop at its await (the
\* sleep, or on_batch inside _flush) and leaves the loop.
TimerCancelled ==
    /\ cancel_req
    /\ flush_task \in {"sleeping", "in_sink"}
    /\ held' = [held EXCEPT !["timer"] = <<>>]
    /\ flush_task' = "cancelled"
    /\ cancel_req' = FALSE
    /\ UNCHANGED <<ring, batch_size, running, stats, pc, stop_pc,
                   accepted, sunk, first_flush_at, timer_fires, stop_calls, late_push, notBuf>>

\* TickBuffer.stop from its first line to its first await: without a flush
\* task that is the on_batch of the final _flush, with a flush task that
\* already failed the await raises its exception, otherwise stop waits for
\* the cancelled task.
StopBeginStep ==
    /\ stop_pc = "idle"
    /\ running' = FALSE
    /\ CASE flush_task = "none" ->
              /\ FlushStart("stop", ring, stats.ticks_received)
              /\ stop_pc' = IF FlushSuspends(ring) THEN "in_sink" ELSE "done"
              /\ UNCHANGED cancel_req
         [] flush_task = "failed" ->
              /\ stop_pc' = "raised"
              /\ UNCHANGED <<ring, held, sunk, first_flush_at, cancel_req>>
         [] OTHER ->
              /\ cancel_req' = TRUE
              /\ stop_pc' = "await_task"
              /\ UNCHANGED <<ring, held, sunk, first_flush_at>>
    /\ stop_calls' = 1
    /\ UNCHANGED <<batch_size, stats, flush_task, pc, accepted,
                   timer_fires, late_push>>

StopBegin == StopBeginStep /\ UNCHANGED notBuf

\* stop resumes once the flush task has ended: the final _flush
StopFinalFlush ==
    /\ stop_pc = "await_task"
    /\ flush_task = "cancelled"
    /\ FlushStart("stop", ring, stats.ticks_received)
    /\ stop_pc' = IF FlushSuspends(ring) THEN "in_sink" ELSE "done"
    /\ UNCHANGED <<batch_size, running, stats, flush_task,
                   cancel_req, pc, accepted, timer_fires, stop_calls, late_push, notBuf>>

\* on_batch returns to stop: the final batch is counted, stop returns
StopSinkReturn ==
    /\ stop_pc = "in_sink"
    /\ stats' = StatsAfterBatch(stats, held["stop"])
    /\ held' = [held EXCEPT !["stop"] = <<>>]
    /\ stop_pc' = "done"
    /\ UNCHANGED <<ring, batch_size, running, flush_task, cancel_req,
                   pc, accepted, sunk, first_flush_at, timer_fires, stop_calls, late_push, notBuf>>

\* on_batch raises in stop: stop raises
StopSinkRaise ==
    /\ stop_pc = "in_sink"
    /\ held' = [held EXCEPT !["stop"] = <<>>]
    /\ stop_pc' = "raised"
    /\ UNCHANGED <<ring, batch_size, running, stats, flush_task,
                   cancel_req, pc, accepted, sunk, first_flush_at, timer_fires, stop_calls, late_push, notBuf>>

\* TickBuffer.stop called a second time right after the first call ended
\* (no push in between).  The flush task has ended by then: cancel() does
\* nothing, and the await of the task returns at once, or raises the
\* exception the task ended with; then comes the final _flush.
StopAgain ==
    /\ stop_pc \in {"done", "raised"}
    /\ stop_calls = 1
    /\ ~late_push
    /\ stop_calls' = 2
    /\ running' = FALSE
    /\ IF flush_task = "failed"
       THEN /\ stop_pc' = "raised"
            /\ UNCHANGED <<ring, held, sunk, first_flush_at>>
       ELSE /\ FlushStart("stop", ring, stats.ticks_received)
            /\ stop_pc' = IF FlushSuspends(ring) THEN "in_sink" ELSE "done"
    /\ UNCHANGED <<batch_size, stats, flush_task, cancel_req, pc, accepted,
                   timer_fires, late_push, notBuf>>

BufNext ==
    \/ Start
    \/ \E p \in Producers : Push(p)
    \/ \E p \in Producers : PushSinkReturn(p)
    \/ \E p \in Producers : PushSinkRaise(p)
    \/ TimerFire
    \/ TimerSinkReturn
    \/ TimerSinkRaise
    \/ TimerCancelled
    \/ StopBegin
    \/ StopFinalFlush
    \/ StopSinkReturn
    \/ StopSinkRaise
    \/ StopAgain

SpecBuf == BufInit /\ [][BufNext]_vars

\* The ticks in flight: held in the ring, or in a batch whose on_batch call is
\* in progress.
InFlight == RingSize(ring) + SumLen(InSink)

\* C1: at every point of every interleaving of push, timer flushes and stop,
\* also while on_batch is awaited and after an on_batch call raised or was
\* cancelled, ticks_received = ticks_processed + ticks_dropped + in_flight.
C1_Conservation ==
    stats.ticks_received = stats.ticks_processed + stats.ticks_dropped + InFlight

\* C7: no producer is ever suspended inside push waiting for on_batch to
\* complete.
C7_PushNeverAwaitsSink == \A p \in Producers : pc[p] # "in_sink"

\* C8: at most one on_batch call is in progress at any time.
C8_OneSinkCallAtATime == Cardinality(InSink) <= 1

\* C9: the batches handed to on_batch, concatenated in the order of the
\* calls, list the accepted ticks in push order without gap, reordering or
\* repetition; what follows them is still stored in the ring.
C9_BatchesInPushOrder ==
    /\ Flatten(sunk) \o RingContents(ring) = accepted
    /\ \A i \in 1 .. Len(sunk) : Len(sunk[i]) \in 1 .. batch_size

\* Two flushes from different tasks overlap (a count-triggered one in a
\* producer and the timer's), after three batches were handed over.
C9_Witness ==
    /\ held["timer"] # <<>>
    /\ \E p \in Producers : held[p] # <<>>
    /\ Len(sunk) >= 3
    /\ Len(accepted) >= 4

\* The first n ticks offered, in order.
FirstTicks(n) == [i \in 1 .. n |-> i]

\* C6 as stated: a burst of capacity + 5 pushes during which no flush
\* happens ends with exactly 5 rejected pushes (read here for the rings
\* that can hold a tick at all, capacity >= 2).
C6_BurstDropsFive ==
    (first_flush_at = 0 /\ ring.capacity >= 2
       /\ stats.ticks_received = ring.capacity + 5)
        => stats.ticks_dropped = 5

\* C6 amended: a burst of capacity + 5 pushes during which no flush happens
\* ends with exactly 6 rejected pushes, the last six, the ring holding the
\* first capacity - 1 ticks; the batches handed to on_batch afterwards start
\* with these ticks in push order.
C6_BurstDropsSix ==
    LET C == ring.capacity
    IN  /\ (first_flush_at = 0 /\ stats.ticks_received = C + 5)
             => /\ stats.ticks_dropped = 6
                /\ accepted = FirstTicks(C - 1)
                /\ RingContents(ring) = accepted
        /\ first_flush_at >= C + 5
             => /\ Len(accepted) >= C - 1
                /\ SubSeq(accepted, 1, C - 1) = FirstTicks(C - 1)
                /\ Flatten(sunk) \o RingContents(ring) = accepted
                /\ stats.ticks_dropped >= 6

\* After a burst of capacity + 5 pushes without a flush on a ring of capacity
\* 4, all three accepted ticks were handed to on_batch and counted.
C6_Witness ==
    /\ ring.capacity = 4
    /\ first_flush_at = ring.capacity + 5
    /\ stats.ticks_dropped = 6
    /\ Flatten(sunk) = FirstTicks(3)
    /\ stats.ticks_processed = 3

\* The timer has flushed once, every push came before that flush, stop was
\* not called and no on_batch call is pending or has failed.
OneTimerFlush ==
    /\ flush_task = "sleeping"
    /\ stop_pc = "idle"
    /\ first_flush_at = stats.ticks_received
    /\ stats.ticks_received >= 1
    /\ stats.ticks_received < batch_size

OneBatchOfAll ==
    /\ sunk = <<FirstTicks(stats.ticks_received)>>
    /\ stats.batches_flushed = 1
    /\ stats.ticks_processed = stats.ticks_received
    /\ stats.ticks_dropped = 0
    /\ RingIsEmpty(ring)

\* C10 as stated: fewer than batch_size ticks pushed into a started batcher,
\* then the timer fires: exactly one batch with all pushed ticks in push
\* order, batches_flushed = 1, ticks_processed = number pushed,
\* ticks_dropped = 0, and later firings deliver nothing.
C10_TimerFlushAllPushed == OneTimerFlush => OneBatchOfAll

\* C10 amended: the same for fewer than batch_size ticks that also fit the
\* ring, that is at most capacity - 1 of them.
C10_TimerFlushAllFitting ==
    (OneTimerFlush /\ stats.ticks_received <= ring.capacity - 1) => OneBatchOfAll

\* Three ticks were pushed with batch_size 4, the timer flushed them and has
\* fired again since on the empty ring.
C10_Witness ==
    /\ OneTimerFlush
    /\ stats.ticks_received = 3
    /\ stats.ticks_received <= ring.capacity - 1
    /\ timer_fires >= 2
    /\ OneBatchOfAll

\* C18 (TickBuffer): a second stop called right after the first delivers no
\* further batch to the sink, changes no counter and raises no error.
C18_SecondStopNoEffect ==
    [][StopAgain => /\ stop_pc' = "done"
                    /\ sunk' = sunk
                    /\ stats' = stats
                    /\ ring' = ring]_vars

\* C31: once TickBuffer.stop has returned, every tick received was either
\* dropped or counted as processed after its batch was delivered:
\* ticks_received = ticks_processed + ticks_dropped.  Stated for the runs
\* in which fewer ticks than batch_size were pushed, so that on_batch is
\* called by the flush timer and by stop only, and it has not raised (stop
\* returned, the timer task did not fail); the ring is empty when stop
\* returns unless a push was made while stop was awaiting on_batch, and
\* those runs are left out.
C31_StopDrains ==
    (/\ stop_pc = "done"
     /\ stop_calls = 1
     /\ ~late_push
     /\ stats.ticks_received < batch_size
     /\ flush_task # "failed"
     /\ RingIsEmpty(ring))
        => stats.ticks_received = stats.ticks_processed + stats.ticks_dropped

\* -------------------------------------------------------- TickAggregator
AggSymbols == {"ES", "NQ"}

\* The price and size fields of the ticks fed to the aggregator:
\* <<trade_price, bid_price, ask_price, trade_size>>.
Payloads ==
    { <<2, None, None, 1>>,          \* a trade
      <<None, 1, 3, None>>,          \* a quote with both sides
      <<None, None, 3, None>>,       \* an ask only
      <<0, None, None, 2>>,          \* a trade at price zero
      <<None, None, None, None>> }   \* no price at all

AggTicks ==
    { AggTick(ts, sym, pl) : ts \in 0 .. MaxTs, sym \in AggSymbols, pl \in Payloads }

\* Python's truth value of an Optional[int], and a or b
Truthy(x) == x # None /\ x # 0
PyOr(a, b) == IF Truthy(a) THEN a ELSE b

\* TickAggregator._get_bar_timestamp
GetBarTimestamp(tick_time_ns) == (tick_time_ns \div TimeframeNs) * TimeframeNs

\* process_tick: price = tick.trade_price or tick.bid_price or tick.ask_price
TickPrice(tick) == PyOr(PyOr(tick.trade_price, tick.bid_price), tick.ask_price)

\* process_tick: size = tick.trade_size or 0
TickSize(tick) == PyOr(tick.trade_size, 0)

Max(a, b) == IF a >= b THEN a ELSE b

\* self.Bar(...) seeded with one tick
NewBar(tick) ==
    [timestamp_ns |-> GetBarTimestamp(tick.timestamp_ns),
     symbol |-> tick.symbol,
     open |-> TickPrice(tick), high |-> TickPrice(tick),
     low |-> TickPrice(tick), close |-> TickPrice(tick),
     volume |-> TickSize(tick), tick_count |-> 1,
     precision |-> tick.price_precision]

\* process_tick: the update of the current bar in place
UpdateBar(bar, tick) ==
    [bar EXCEPT !.high = Max(@, TickPrice(tick)),
                !.low = Min(@, TickPrice(tick)),
                !.close = TickPrice(tick),
                !.volume = @ + TickSize(tick),
                !.tick_count = @ + 1]

\* symbol in self._bars, and the position of its bar
HasBar(sym) == \E i \in 1 .. Len(bars) : bars[i].symbol = sym
BarIndex(sym) == CHOOSE i \in 1 .. Len(bars) : bars[i].symbol = sym

\* A bar as handed to on_bar, with the number of priced ticks seen and of
\* flush_all calls made before.
Emit(bar) == [bar |-> bar, upto |-> Len(agg_hist), epoch |-> agg_epoch]

\* What process_tick reads off a priced tick.
Seen(tick) ==
    [symbol |-> tick.symbol, bar_ts |-> GetBarTimestamp(tick.timestamp_ns),
     price |-> TickPrice(tick), size |-> TickSize(tick)]

\* A comparison that closes the current bar on any other bar_ts.
BarCompletedIfOther(bar_ts, current_bar) == bar_ts # current_bar.timestamp_ns

\* process_tick: bar_ts > current_bar.timestamp_ns
BarCompleted(bar_ts, current_bar) == bar_ts > current_bar.timestamp_ns

\* TickAggregator.process_tick(tick), the await of on_bar included
ProcessTickStep(tick) ==
    /\ agg_calls < MaxAggCalls
    /\ agg_calls' = agg_calls + 1
    /\ agg_call' = "process_tick"
    /\ agg_tick' = tick
    /\ UNCHANGED agg_epoch
    /\ IF TickPrice(tick) = None
       THEN UNCHANGED <<bars, emitted, agg_hist>>
       ELSE /\ agg_hist' = Append(agg_hist, Seen(tick))
            /\ IF HasBar(tick.symbol)
               THEN LET i == BarIndex(tick.symbol)
                        current_bar == bars[i]
                    IN  IF BarCompleted(GetBarTimestamp(tick.timestamp_ns), current_bar)
                        THEN /\ emitted' = Append(emitted, Emit(current_bar))
                             /\ bars' = [bars EXCEPT ![i] = NewBar(tick)]
                        ELSE /\ bars' = [bars EXCEPT ![i] = UpdateBar(current_bar, tick)]
                             /\ UNCHANGED emitted
               ELSE /\ bars' = Append(bars, NewBar(tick))
                    /\ UNCHANGED emitted

ProcessTick(tick) == ProcessTickStep(tick) /\ UNCHANGED notAgg

\* TickAggregator.flush_all()
FlushAllStep ==
    /\ agg_calls < MaxAggCalls
    /\ agg_calls' = agg_calls + 1
    /\ agg_call' = "flush_all"
    /\ agg_epoch' = agg_epoch + 1
    /\ emitted' = emitted \o [i \in 1 .. Len(bars) |-> Emit(bars[i])]
    /\ bars' = <<>>
    /\ UNCHANGED <<agg_hist, agg_tick>>

FlushAll == FlushAllStep /\ UNCHANGED notAgg

AggInit ==
    /\ ExtIdle
    /\ rb_requested = 1
    /\ ring = RingNew(rb_requested)
    /\ RingHistIdle
    /\ batch_size = 1
    /\ BufStart
    /\ AggStart
    /\ FeedIdle

AggNext ==
    \/ \E tick \in AggTicks : ProcessTick(tick)
    \/ FlushAll

SpecAgg == AggInit /\ [][AggNext]_vars

\* C3 as stated: for every symbol and every sequence of process_tick and
\* flush_all calls, the bars handed to on_bar have strictly increasing bar
\* timestamps.
C3_BarTimestampsIncrease ==
    \A i, j \in 1 .. Len(emitted) :
        (i < j /\ emitted[i].bar.symbol = emitted[j].bar.symbol)
            => emitted[i].bar.timestamp_ns < emitted[j].bar.timestamp_ns

\* C3 amended: for every symbol the bar timestamps strictly increase among
\* the bars handed to on_bar from one flush_all to the next, the bars of
\* that next flush_all included.
C3_BarTimestampsIncreaseUpToFlush ==
    \A i, j \in 1 .. Len(emitted) :
        (i < j /\ emitted[i].bar.symbol = emitted[j].bar.symbol
               /\ emitted[i].epoch = emitted[j].epoch)
            => emitted[i].bar.timestamp_ns < emitted[j].bar.timestamp_ns

\* A symbol's bar was closed by a later tick, a late tick for the closed bar
\* arrived, and flush_all delivered the symbol's second bar.
C3_Witness ==
    /\ agg_call = "flush_all"
    /\ \E i, j \in 1 .. Len(emitted) :
          /\ i < j
          /\ emitted[i].bar.symbol = emitted[j].bar.symbol
          /\ emitted[i].epoch = emitted[j].epoch
          /\ emitted[i].upto < emitted[j].upto
          /\ emitted[j].bar.tick_count >= 2
          /\ agg_hist[emitted[j].upto].bar_ts < emitted[j].bar.timestamp_ns

\* The priced ticks of symbol sym with floored timestamp ts among the first
\* upto priced ticks, in arrival order.
TicksOfBar(sym, ts, upto) ==
    SelectSeq(SubSeq(agg_hist, 1, upto),
              LAMBDA t : t.symbol = sym /\ t.bar_ts = ts)

RECURSIVE SeqMax(_)
SeqMax(xs) == IF Len(xs) = 1 THEN xs[1] ELSE Max(xs[1], SeqMax(Tail(xs)))
RECURSIVE SeqMin(_)
SeqMin(xs) == IF Len(xs) = 1 THEN xs[1] ELSE Min(xs[1], SeqMin(Tail(xs)))
RECURSIVE SeqSum(_)
SeqSum(xs) == IF xs = <<>> THEN 0 ELSE xs[1] + SeqSum(Tail(xs))

\* C4: every bar handed to on_bar is built from exactly the ticks of its
\* symbol whose floored timestamp is its bar_ts: open is the price of the
\* first, close of the last, high the maximum, low the minimum, volume the
\* sum of the trade sizes and tick_count their number.
C4_BarFromItsTicks ==
    \A k \in 1 .. Len(emitted) :
        LET b == emitted[k].bar
            ts == TicksOfBar(b.symbol, b.timestamp_ns, emitted[k].upto)
            prices == [i \in 1 .. Len(ts) |-> ts[i].price]
            sizes == [i \in 1 .. Len(ts) |-> ts[i].size]
        IN  /\ ts # <<>>
            /\ b.open = prices[1]
            /\ b.close = prices[Len(ts)]
            /\ b.high = SeqMax(prices)
            /\ b.low = SeqMin(prices)
            /\ b.volume = SeqSum(sizes)
            /\ b.tick_count = Len(ts)

\* A process_tick call with a priced tick whose floored timestamp lies
\* before the bar_ts of its symbol's current bar.
LateTick(tick) ==
    /\ HasBar(tick.symbol)
    /\ GetBarTimestamp(tick.timestamp_ns) < bars[BarIndex(tick.symbol)].timestamp_ns

\* C5: a late tick is ignored: the call leaves every current bar as it was
\* and hands nothing to on_bar.
C5_LateTickIgnored ==
    [][(agg_calls' = agg_calls + 1 /\ agg_call' = "process_tick" /\ LateTick(agg_tick'))
          => (bars' = bars /\ emitted' = emitted)]_vars

\* The first present value among trade_price, bid_price, ask_price.
FirstPresent(tick) ==
    IF tick.trade_price # None THEN tick.trade_price
    ELSE IF tick.bid_price # None THEN tick.bid_price
    ELSE tick.ask_price

\* C28: process_tick takes as the tick's price the first present value among
\* trade_price, bid_price, ask_price (a present 0 included) and trade_size
\* or 0 as its size: a tick with a price is recorded with that price and
\* size and becomes the close of its symbol's bar unless it is late, and a
\* tick with no price emits nothing and leaves every bar unchanged.
C28_FirstPresentPrice ==
    [][(agg_calls' = agg_calls + 1 /\ agg_call' = "process_tick") =>
          LET tick == agg_tick'
              price == FirstPresent(tick)
              size == IF tick.trade_size = None THEN 0 ELSE tick.trade_size
          IN  IF price = None
              THEN bars' = bars /\ emitted' = emitted /\ agg_hist' = agg_hist
              ELSE /\ agg_hist' = Append(agg_hist,
                          [symbol |-> tick.symbol,
                           bar_ts |-> GetBarTimestamp(tick.timestamp_ns),
                           price |-> price, size |-> size])
                   /\ (~LateTick(tick) =>
                          \E i \in 1 .. Len(bars') :
                              /\ bars'[i].symbol = tick.symbol
                              /\ bars'[i].close = price)]_vars

\* ------------------------- TickAggregator.process_tick called by two tasks
\* The ticks the two handler tasks bring: trades and quotes of one symbol.
RaceTicks ==
    { AggTick(ts, "ES", pl) : ts \in 0 .. MaxTs,
                              pl \in { <<1, None, None, 2>>, <<None, 1, 3, None>> } }

\* process_tick(tick) by task p, up to its return or up to the await of
\* on_bar(completed_bar): the bar is handed over and the task waits, with
\* self._bars[symbol] still the completed bar.
PtEnter(p, tick) ==
    /\ pt_pc[p] = "idle"
    /\ agg_calls < MaxAggCalls
    /\ agg_calls' = agg_calls + 1
    /\ agg_call' = "process_tick"
    /\ agg_tick' = tick
    /\ UNCHANGED agg_epoch
    /\ IF TickPrice(tick) = None
       THEN UNCHANGED <<bars, emitted, agg_hist, raceVars>>
       ELSE /\ agg_hist' = Append(agg_hist, Seen(tick))
            /\ IF HasBar(tick.symbol)
               THEN LET i == BarIndex(tick.symbol)
                        current_bar == bars[i]
                    IN  IF BarCompleted(GetBarTimestamp(tick.timestamp_ns), current_bar)
                        THEN /\ emitted' = Append(emitted, Emit(current_bar))
                             /\ pt_pc' = [pt_pc EXCEPT ![p] = "on_bar"]
                             /\ pt_tick' = [pt_tick EXCEPT ![p] = tick]
                             /\ UNCHANGED bars
                        ELSE /\ bars' = [bars EXCEPT ![i] = UpdateBar(current_bar, tick)]
                             /\ UNCHANGED <<emitted, raceVars>>
               ELSE /\ bars' = Append(bars, NewBar(tick))
                    /\ UNCHANGED <<emitted, raceVars>>
    /\ UNCHANGED notRace

\* on_bar returns to task p: process_tick stores the new bar, seeded with
\* the task's tick, and returns.
PtOnBarReturn(p) ==
    /\ pt_pc[p] = "on_bar"
    /\ bars' = [bars EXCEPT ![BarIndex(pt_tick[p].symbol)] = NewBar(pt_tick[p])]
    /\ pt_pc' = [pt_pc EXCEPT ![p] = "idle"]
    /\ UNCHANGED <<pt_tick, emitted, agg_hist, agg_call, agg_tick, agg_calls,
                   agg_epoch>>
    /\ UNCHANGED notRace

RaceNext ==
    \/ \E p \in Producers, tick \in RaceTicks : PtEnter(p, tick)
    \/ \E p \in Producers : PtOnBarReturn(p)

SpecAggRace == AggInit /\ [][RaceNext]_vars

\* The number of ticks held by the bars handed over and the current bars.
RECURSIVE TickCountSum(_)
TickCountSum(bs) ==
    IF bs = <<>> THEN 0 ELSE bs[1].tick_count + TickCountSum(Tail(bs))

\* C32: with process_tick calls of two tasks interleaved at the await of the
\* bar sink, each completed bar is handed to on_bar once, and once both
\* calls have returned the bars handed over and the current bars together
\* account for every priced tick.
C32_BarOnceBothTicks ==
    /\ \A i, j \in 1 .. Len(emitted) :
          (i < j /\ emitted[i].bar.symbol = emitted[j].bar.symbol)
              => emitted[i].bar.timestamp_ns # emitted[j].bar.timestamp_ns
    /\ (\A p \in Producers : pt_pc[p] = "idle")
          => TickCountSum([k \in 1 .. Len(emitted) |-> emitted[k].bar])
                 + TickCountSum(bars) = Len(agg_hist)

\* ---------------------------------------- subscriptions of a feed handler
\* DatabentoHandler, DatabentoHandlerBinary, BloombergHandler, CMEHandler
HandlerKinds == {"databento", "databento_binary", "bloomberg", "cme"}

FeedSymbols == {"ES", "NQ"}

\* The lists of symbols handed to subscribe and unsubscribe.
SymbolLists ==
    {<<a>> : a \in FeedSymbols} \cup {<<a, b>> : a, b \in FeedSymbols}

ToSet(xs) == {xs[i] : i \in 1 .. Len(xs)}

\* list.remove(x) on a list that holds x: the first occurrence goes
RECURSIVE ListRemove(_, _)
ListRemove(xs, x) ==
    IF xs = <<>> THEN <<>>
    ELSE IF Head(xs) = x THEN Tail(xs)
    ELSE <<Head(xs)>> \o ListRemove(Tail(xs), x)

\* A variant of DropSymbol without the membership test, dropping the oldest
\* subscription when the symbol is absent.
DropSymbolUnguarded(xs, x) ==
    IF x \in ToSet(xs) THEN ListRemove(xs, x)
    ELSE IF xs = <<>> THEN xs ELSE Tail(xs)

\* unsubscribe, for one symbol: if symbol in self._subscriptions: remove it
DropSymbol(xs, x) == IF x \in ToSet(xs) THEN ListRemove(xs, x) ELSE xs

RECURSIVE DropSymbols(_, _)
DropSymbols(xs, symbols) ==
    IF symbols = <<>> THEN xs
    ELSE DropSymbols(DropSymbol(xs, Head(symbols)), Tail(symbols))

\* subscribe: self._stats[symbol] = FeedStats(...) for each symbol
StatsReset(st, symbols) ==
    [s \in (DOMAIN st) \cup ToSet(symbols) |->
        IF s \in ToSet(symbols) THEN FreshStats ELSE st[s]]

\* The subscription state of the handler: list, stats map, books.
HState == [subs |-> subscriptions, stats |-> h_stats, bks |-> books]

\* subscribe(symbols) of a handler of class kind on a connection that takes
\* the request: the list is extended, the stats of the symbols are made
\* anew, and CMEHandler gives each symbol an empty book.
VendorSubscribe(kind, st, symbols) ==
    [subs |-> st.subs \o symbols,
     stats |-> StatsReset(st.stats, symbols),
     bks |-> IF kind = "cme" THEN st.bks \cup ToSet(symbols) ELSE st.bks]

\* unsubscribe(symbols): one occurrence of each symbol leaves the list, and
\* CMEHandler deletes the symbol's book.
VendorUnsubscribe(kind, st, symbols) ==
    [subs |-> DropSymbols(st.subs, symbols),
     stats |-> st.stats,
     bks |-> IF kind = "cme" THEN st.bks \ ToSet(symbols) ELSE st.bks]

\* The last two calls, the newest last.
LastTwo(ops) == IF Len(ops) <= 2 THEN ops ELSE Tail(ops)

\* A connected handler of any class, nothing subscribed
SubsInit ==
    /\ ExtIdle
    /\ PipeIdle
    /\ h_kind \in HandlerKinds
    /\ h_running = FALSE
    /\ h_connected = TRUE
    /\ h_resource = TRUE
    /\ reconnect_delay = InitialReconnectDelay
    /\ subscriptions = <<>>
    /\ h_stats = NoStats
    /\ books = {}
    /\ SupIdle
    /\ sub_ops = <<>>
    /\ MgrNew("databento")
    /\ StatIdle
    /\ CmeIdle

\* handler.subscribe(symbols)
Subscribe(symbols) ==
    /\ Len(subscriptions) + Len(symbols) <= MaxSubsLen
    /\ LET st == VendorSubscribe(h_kind, HState, symbols)
       IN  /\ subscriptions' = st.subs
           /\ h_stats' = st.stats
           /\ books' = st.bks
    /\ sub_ops' = LastTwo(Append(sub_ops, <<"subscribe", symbols>>))
    /\ UNCHANGED <<h_kind, h_running, h_connected, h_resource,
                   reconnect_delay, notSubs>>

\* handler.unsubscribe(symbols)
Unsubscribe(symbols) ==
    /\ LET st == VendorUnsubscribe(h_kind, HState, symbols)
       IN  /\ subscriptions' = st.subs
           /\ h_stats' = st.stats
           /\ books' = st.bks
    /\ sub_ops' = LastTwo(Append(sub_ops, <<"unsubscribe", symbols>>))
    /\ UNCHANGED <<h_kind, h_running, h_connected, h_resource,
                   reconnect_delay, notSubs>>

SubsNext ==
    \/ \E symbols \in SymbolLists : Subscribe(symbols)
    \/ \E symbols \in SymbolLists : Unsubscribe(symbols)

SpecSubs == SubsInit /\ [][SubsNext]_vars

\* C17: in every state a handler of any class can be in, subscribing the
\* same list twice leaves the same set of subscribed symbols as subscribing
\* it once, and unsubscribing symbols none of which is subscribed leaves the
\* list, the stats and the books as they are.
C17_SubscribeIdempotent ==
    \A S \in SymbolLists :
        LET once == VendorSubscribe(h_kind, HState, S)
            twice == VendorSubscribe(h_kind, once, S)
        IN  /\ ToSet(twice.subs) = ToSet(once.subs)
            /\ (ToSet(S) \cap ToSet(subscriptions) = {}
                   => VendorUnsubscribe(h_kind, HState, S) = HState)

\* The same list was subscribed twice in a row on top of another
\* subscription: the list holds repetitions, the set is that of one call.
C17_Witness ==
    /\ Len(sub_ops) = 2
    /\ sub_ops[1] = sub_ops[2]
    /\ sub_ops[1][1] = "subscribe"
    /\ Len(subscriptions) = 2 * Len(sub_ops[1][2]) + 1
    /\ ToSet(subscriptions) = FeedSymbols

\* C33: once unsubscribe(S) has returned, no symbol of S is in the handler's
\* subscription list, however many times it was subscribed before.
C33_UnsubscribeRemovesAll ==
    (sub_ops # <<>> /\ sub_ops[Len(sub_ops)][1] = "unsubscribe")
        => ToSet(sub_ops[Len(sub_ops)][2]) \cap ToSet(subscriptions) = {}

\* ------------------------------------------------------ FeedStats.update
\* Tick.sequence_num: absent, or a number
SeqNums == {None} \cup (0 .. MaxSeq)

\* A variant of GapFires without the test on last_sequence.
GapFiresAlways(last_sequence, sequence_num) ==
    sequence_num # last_sequence + 1

\* self.last_sequence > 0 and tick.sequence_num != self.last_sequence + 1
GapFires(last_sequence, sequence_num) ==
    last_sequence > 0 /\ sequence_num # last_sequence + 1

\* FeedStats.update for a tick whose sequence_num is seq
StatsUpdate(st, seq) ==
    [ticks_received |-> st.ticks_received + 1,
     gaps_detected |-> IF seq # None /\ GapFires(st.last_sequence, seq)
                       THEN st.gaps_detected + 1
                       ELSE st.gaps_detected,
     last_sequence |-> IF seq # None THEN seq ELSE st.last_sequence]

StatInit ==
    /\ ExtIdle
    /\ PipeIdle
    /\ FeedIdle

\* stats.update(tick, receive_time)
Update(seq) ==
    /\ Len(fs_hist) < MaxUpdates
    /\ fs' = StatsUpdate(fs, seq)
    /\ fs_hist' = Append(fs_hist, seq)
    /\ UNCHANGED notStat

StatNext == \E seq \in SeqNums : Update(seq)

SpecStats == StatInit /\ [][StatNext]_vars

\* The sequence numbers of the ticks that carry one, in arrival order.
Numbered(hist) == SelectSeq(hist, LAMBDA x : x # None)

\* The number of indices i >= 1 with seq[i] # seq[i-1] + 1 and seq[i-1] > 0.
GapCount(seq) ==
    Cardinality({i \in 2 .. Len(seq) :
                    seq[i] # seq[i - 1] + 1 /\ seq[i - 1] > 0})

\* C19: after update was applied to any sequence of ticks, gaps_detected is
\* the number of gaps among the ticks that carry a sequence number, and
\* last_sequence is the last such number (0 if there was none): ticks
\* without a sequence number change neither.
C19_GapsCounted ==
    LET seq == Numbered(fs_hist)
    IN  /\ fs.gaps_detected = GapCount(seq)
        /\ fs.last_sequence = IF seq = <<>> THEN 0 ELSE seq[Len(seq)]
        /\ fs.ticks_received = Len(fs_hist)

\* A tick without a number came between numbered ticks, a jump was counted
\* and a jump after sequence number 0 was not.
C19_Witness ==
    /\ Len(fs_hist) = MaxUpdates
    /\ \E i \in 1 .. Len(fs_hist) : fs_hist[i] = None
    /\ LET seq == Numbered(fs_hist)
       IN  /\ Len(seq) = 3
           /\ seq[1] = 0
           /\ seq[2] > 1
           /\ seq[3] > seq[2] + 1
    /\ fs.gaps_detected = 1

\* ------------------------------------------------ CMEHandler.parse_packet
\* msg_seq_num of the packet header
CmeSeqs == {100, 101, 102, 105}

\* The messages of a packet.  A message is named by what the parser makes of
\* it: "bid", "offer", "trade" are incremental refreshes (template 32) with
\* that entry type; "other_entry" is one with another entry type;
\* "other_template" has another template id; "end" has msg_size 0.
CmePayloads ==
    { <<"trade">>,
      <<"bid", "other_template", "offer">>,
      <<"other_entry", "end", "trade">> }

\* A datagram: shorter than the packet header, or a header and messages.
CmePackets ==
    {[short |-> TRUE, seq |-> None, msgs |-> <<>>]}
        \cup {[short |-> FALSE, seq |-> n, msgs |-> m] :
                 n \in CmeSeqs, m \in CmePayloads}

\* The message loop of parse_packet: the ticks of the messages, in order, up
\* to the end of the data or a message of size 0.
RECURSIVE ParseMessages(_)
ParseMessages(msgs) ==
    IF msgs = <<>> \/ Head(msgs) = "end" THEN <<>>
    ELSE (IF Head(msgs) \in {"bid", "offer", "trade"}
          THEN <<Head(msgs)>> ELSE <<>>) \o ParseMessages(Tail(msgs))

\* A variant of GapAhead that takes any packet other than the expected one.
GapAny(expected, seq_num) == expected > 0 /\ seq_num # expected

\* self._expected_seq > 0 and seq_num != self._expected_seq, and
\* seq_num > self._expected_seq
GapAhead(expected, seq_num) ==
    expected > 0 /\ seq_num # expected /\ seq_num > expected

CmeInit ==
    /\ ExtIdle
    /\ PipeIdle
    /\ FeedIdle

\* handler.parse_packet(data)
ParsePacket(pkt) ==
    /\ Len(cme_hist) < MaxPackets
    /\ cme_hist' = Append(cme_hist, pkt)
    /\ IF pkt.short
       THEN /\ cme_out' = Append(cme_out, <<>>)
            /\ UNCHANGED <<expected_seq, gaps>>
       ELSE /\ gaps' = IF GapAhead(expected_seq, pkt.seq)
                       THEN Append(gaps, <<expected_seq, pkt.seq - 1>>)
                       ELSE gaps
            /\ expected_seq' = pkt.seq + 1
            /\ cme_out' = Append(cme_out, ParseMessages(pkt.msgs))
    /\ UNCHANGED cme_read
    /\ UNCHANGED notCme

CmeNext == \E pkt \in CmePackets : ParsePacket(pkt)

SpecCme == CmeInit /\ [][CmeNext]_vars

\* The sequence numbers of the packets that had a header, in arrival order.
CmeReceived ==
    LET full == SelectSeq(cme_hist, LAMBDA pkt : ~pkt.short)
    IN  [i \in 1 .. Len(full) |-> full[i].seq]

\* One range (previous + 1, seq - 1) for each packet that jumps ahead of
\* the number expected after the packet before it, in arrival order.
RECURSIVE JumpRanges(_)
JumpRanges(seq) ==
    IF Len(seq) < 2 THEN <<>>
    ELSE LET n == Len(seq)
             front == JumpRanges(SubSeq(seq, 1, n - 1))
         IN  IF seq[n] > seq[n - 1] + 1
             THEN Append(front, <<seq[n - 1] + 1, seq[n] - 1>>)
             ELSE front

\* C20: the recorded ranges are exactly one (expected_seq, seq-1) for each
\* packet that jumps ahead of the expected number and none for any other,
\* expected_seq is always the last packet's number plus one, the messages
\* of every packet are parsed whatever the gaps, and packets 100, 101, 105
\* leave the single range (102, 104).
C20_GapRangesRecorded ==
    /\ gaps = JumpRanges(CmeReceived)
    /\ expected_seq = IF CmeReceived = <<>> THEN 0
                      ELSE CmeReceived[Len(CmeReceived)] + 1
    /\ Len(cme_out) = Len(cme_hist)
    /\ \A i \in 1 .. Len(cme_hist) :
          ~cme_hist[i].short => cme_out[i] = ParseMessages(cme_hist[i].msgs)
    /\ CmeReceived = <<100, 101, 105>> => gaps = << <<102, 104>> >>

\* Packets 100, 101, 105 were parsed, each gave its ticks, and one range is
\* recorded.
C20_Witness ==
    /\ CmeReceived = <<100, 101, 105>>
    /\ gaps = << <<102, 104>> >>
    /\ \A i \in 1 .. Len(cme_out) : cme_out[i] # <<>>

\* C36: a gap range, when parse_packet records it, holds no sequence number
\* of a packet received before, duplicates and packets out of order
\* included.
C36_GapsHoldUnreceived ==
    [][gaps' # gaps =>
          LET range == gaps'[Len(gaps')]
          IN  \A k \in 1 .. Len(CmeReceived) :
                 CmeReceived[k] \notin range[1] .. range[2]]_vars

\* Tick.sequence_num of the ticks a connection delivers
ReadSeqs == {None, 1, 3}

\* _read_messages: 'if tick.symbol in self._stats: update(tick, ...)';
\* DatabentoHandlerBinary keeps no stats
StatsAfterRead(kind, st, sym, seq) ==
    IF kind # "databento_binary" /\ sym \in DOMAIN st
    THEN [st EXCEPT ![sym] = StatsUpdate(@, seq)]
    ELSE st

\* --------------------------- CMEHandler: from the datagram to the stats
\* The datagrams delivered to a handler that is reading.
CmeFeedPackets ==
    {pkt \in CmePackets :
        pkt.short \/ (pkt.seq \in {100, 101, 105}
                        /\ pkt.msgs \in {<<"trade">>, <<"bid", "other_template", "offer">>})}

\* A CMEHandler subscribed to ES before start(): the supervisor has
\* connected, subscribed the list once more, and is reading.
CmeFeedInit ==
    /\ ExtIdle
    /\ PipeIdle
    /\ h_kind = "cme"
    /\ h_running = TRUE
    /\ h_connected = TRUE
    /\ h_resource = TRUE
    /\ reconnect_delay = InitialReconnectDelay
    /\ subscriptions = <<"ES", "ES">>
    /\ h_stats = StatsReset(NoStats, subscriptions)
    /\ books = ToSet(subscriptions)
    /\ sup_pc = "read"
    /\ sup_cancel = FALSE
    /\ fails = 0
    /\ slept = 0
    /\ disconnect_calls = 0
    /\ h_stopped = FALSE
    /\ h_cancelled = FALSE
    /\ sub_ops = <<>>
    /\ MgrNew("cme")
    /\ StatIdle
    /\ CmeIdle

\* CMEProtocol.tick_queue: the ticks parse_packet returned, in order, but
\* for those _read_messages has taken
TickQueue ==
    LET all == Flatten(cme_out)
    IN  SubSeq(all, cme_read + 1, Len(all))

\* CMEProtocol.datagram_received(data): parse_packet, each tick put on the
\* queue
DatagramReceived(pkt) ==
    /\ Len(cme_hist) < MaxDatagrams
    /\ ParsePacket(pkt)

\* One round of CMEHandler._read_messages: a tick is taken off the queue;
\* if its symbol (sym, from the security id of the entry) is subscribed its
\* stats are updated and the tick goes to on_tick.  The ticks of
\* _parse_incremental_refresh carry no sequence_num.
CmeReadTick ==
    /\ sup_pc = "read"
    /\ h_running
    /\ TickQueue # <<>>
    /\ cme_read' = cme_read + 1
    /\ \E sym \in FeedSymbols :
         h_stats' = IF sym \in ToSet(subscriptions)
                    THEN StatsAfterRead(h_kind, h_stats, sym, None)
                    ELSE h_stats
    /\ UNCHANGED <<pipeVars, h_kind, h_running, h_connected, h_resource,
                   reconnect_delay, subscriptions, books, supVars, sub_ops,
                   mgrVars, statVars, expected_seq, gaps, cme_hist, cme_out,
                   extVars>>

CmeFeedNext ==
    \/ \E pkt \in CmeFeedPackets : DatagramReceived(pkt)
    \/ CmeReadTick

SpecCmeFeed == CmeFeedInit /\ [][CmeFeedNext]_vars

\* gaps_detected summed over the FeedStats of get_all_stats()
RECURSIVE SumGaps(_, _)
SumGaps(st, syms) ==
    IF syms = {} THEN 0
    ELSE LET s == CHOOSE x \in syms : TRUE
         IN  st[s].gaps_detected + SumGaps(st, syms \ {s})

\* C21: once the ticks of the packets received have been read, the gap
\* counter of the handler's feed statistics equals the number of gap ranges
\* in the handler's gap list; after packets 100, 101, 105 it is 1.
C21_GapCounterMatchesList ==
    TickQueue = <<>> =>
        /\ SumGaps(h_stats, DOMAIN h_stats) = Len(gaps)
        /\ (CmeReceived = <<100, 101, 105>> =>
               SumGaps(h_stats, DOMAIN h_stats) = 1)

\* ------------------------------ the vendors' parsers and read loops
\* The value of a price field of a Databento JSON message.
JsonFields == {Absent, NotANumber, 0, 2}

\* The lines DatabentoHandler reads: the empty line of a closed stream, a
\* line that is not JSON, JSON that is no object (a list, a number, null),
\* or an object without "type", with type "heartbeat" or with another type.
TextFrames ==
    {Input(shape, "none", Absent, Absent, Absent) :
        shape \in {"eof", "invalid_json", "not_object"}}
    \cup {Input("object", type, bid, ask, trade) :
            type \in {"absent", "heartbeat", "status"},
            bid \in JsonFields, ask \in JsonFields, trade \in JsonFields}

\* int(msg[key] * multiplier) if key in msg else None, with precision 2
TextPrice(field) == IF field = Absent THEN None ELSE field * 100

\* DatabentoHandler._parse_message: "raise", "none" or a tick
ParseMessage(msg) ==
    IF msg.shape = "not_object" THEN [outcome |-> "raise", tick |-> NoTick]
    ELSE IF msg.type = "heartbeat" THEN [outcome |-> "none", tick |-> NoTick]
    ELSE IF NotANumber \in {msg.bid, msg.ask, msg.trade}
    THEN [outcome |-> "raise", tick |-> NoTick]
    ELSE [outcome |-> "tick",
          tick |-> MakeTick(IF msg.trade # Absent THEN "TRADE"
                            ELSE IF msg.bid # Absent /\ msg.ask # Absent THEN "BBO"
                            ELSE "QUOTE",
                            TextPrice(msg.bid), TextPrice(msg.ask),
                            TextPrice(msg.trade))]

\* One round of DatabentoHandler._read_messages: the outcome, with "eof"
\* for the break on an empty line and "skip" for a continue
TextRound(frame) ==
    IF frame.shape = "eof" THEN [outcome |-> "eof", tick |-> NoTick]
    ELSE IF frame.shape = "invalid_json" THEN [outcome |-> "skip", tick |-> NoTick]
    ELSE LET r == ParseMessage(frame)
         IN  IF r.outcome = "none" THEN [outcome |-> "skip", tick |-> NoTick] ELSE r

\* The records DatabentoHandlerBinary reads: the stream ends within a
\* record, the body is shorter than an MBP-1 record, or it is one.
BinaryRecords ==
    {Input(shape, "mbp1", bid, ask, trade) :
        shape \in {"incomplete", "short", "record"},
        bid \in {0, 2}, ask \in {0, 2}, trade \in {0, 2}}

\* DatabentoHandlerBinary._parse_binary_record and the round of
\* _read_messages around it
BinaryRound(rec) ==
    IF rec.shape = "incomplete" THEN [outcome |-> "eof", tick |-> NoTick]
    ELSE IF rec.shape = "short" THEN [outcome |-> "skip", tick |-> NoTick]
    ELSE [outcome |-> "tick",
          tick |-> MakeTick("BBO", rec.bid, rec.ask,
                            IF rec.trade # 0 THEN rec.trade ELSE None)]

\* The events of a Bloomberg session: BID, ASK and LAST_PRICE as
\* event.get returns them
BloombergEvents ==
    {Input("event", type, bid, ask, last) :
        type \in {"SUBSCRIPTION_DATA", "OTHER"},
        bid \in {None, 0, 2}, ask \in {None, 0, 2}, last \in {None, 0, 2}}

\* int(bid * multiplier) if bid else None, with precision 4
EventPrice(field) == IF Truthy(field) THEN field * 10000 ELSE None

\* BloombergHandler._parse_event, and the tick's way through the queue to
\* the yield of _read_messages
BloombergRound(event) ==
    IF event.type # "SUBSCRIPTION_DATA" THEN [outcome |-> "skip", tick |-> NoTick]
    ELSE [outcome |-> "tick",
          tick |-> MakeTick(IF event.trade # None THEN "TRADE"
                            ELSE IF event.bid # None /\ event.ask # None THEN "BBO"
                            ELSE "QUOTE",
                            EventPrice(event.bid), EventPrice(event.ask),
                            EventPrice(event.trade))]

\* The entries of a CME incremental refresh: the entry type and the price
\* mantissa (carried in the bid field), or data shorter than an entry.
CmeEntries ==
    {Input(shape, type, price, Absent, Absent) :
        shape \in {"entry", "short"},
        type \in {"bid", "offer", "trade", "other"}, price \in {0, 2}}

\* CMEHandler._parse_incremental_refresh, and the tick's way through the
\* queue to the yield of _read_messages
CmeRound(entry) ==
    IF entry.shape = "short" \/ entry.type = "other"
    THEN [outcome |-> "skip", tick |-> NoTick]
    ELSE [outcome |-> "tick",
          tick |-> CASE entry.type = "bid" -> MakeTick("QUOTE", entry.bid, None, None)
                     [] entry.type = "offer" -> MakeTick("QUOTE", None, entry.bid, None)
                     [] entry.type = "trade" -> MakeTick("TRADE", None, None, entry.bid)]

\* What a handler of class kind may read
InputsOf(kind) ==
    CASE kind = "databento" -> TextFrames
      [] kind = "databento_binary" -> BinaryRecords
      [] kind = "bloomberg" -> BloombergEvents
      [] kind = "cme" -> CmeEntries

\* One round of the read loop of a handler of class kind
RoundOf(kind, input) ==
    CASE kind = "databento" -> TextRound(input)
      [] kind = "databento_binary" -> BinaryRound(input)
      [] kind = "bloomberg" -> BloombergRound(input)
      [] kind = "cme" -> CmeRound(input)

\* A running handler of any class, inside _read_messages
ReadInit ==
    /\ PipeIdle
    /\ h_kind \in HandlerKinds
    /\ h_running = TRUE
    /\ h_connected = TRUE
    /\ h_resource = TRUE
    /\ reconnect_delay = InitialReconnectDelay
    /\ subscriptions = <<>>
    /\ h_stats = NoStats
    /\ books = {}
    /\ SupIdle
    /\ sub_ops = <<>>
    /\ MgrNew("databento")
    /\ StatIdle
    /\ CmeIdle
    /\ ExtIdle

\* The rounds of _read_messages, by their outcome: a tick is yielded, the
\* loop continues without one, the generator ends, or an exception leaves it.
ReadRound(input, r) ==
    /\ rd_pc = "read"
    /\ rd_count < MaxReads
    /\ rd_count' = rd_count + 1
    /\ rd_in' = input
    /\ rd_tick' = r.tick
    /\ rd_pc' = CASE r.outcome \in {"tick", "skip"} -> "read"
                   [] r.outcome = "eof" -> "ended"
                   [] r.outcome = "raise" -> "raised"
    /\ UNCHANGED notRead

ReadYield ==
    \E input \in InputsOf(h_kind) :
        /\ RoundOf(h_kind, input).outcome = "tick"
        /\ ReadRound(input, RoundOf(h_kind, input))

ReadSkip ==
    \E input \in InputsOf(h_kind) :
        /\ RoundOf(h_kind, input).outcome = "skip"
        /\ ReadRound(input, RoundOf(h_kind, input))

ReadEnd ==
    \E input \in InputsOf(h_kind) :
        /\ RoundOf(h_kind, input).outcome = "eof"
        /\ ReadRound(input, RoundOf(h_kind, input))

ReadRaise ==
    \E input \in InputsOf(h_kind) :
        /\ RoundOf(h_kind, input).outcome = "raise"
        /\ ReadRound(input, RoundOf(h_kind, input))

ReadNext == ReadYield \/ ReadSkip \/ ReadEnd \/ ReadRaise

SpecRead == ReadInit /\ [][ReadNext]_vars

\* C24: every tick a vendor handler yields has at least one of bid_price,
\* ask_price, trade_price, and a tick of kind BBO has both bid_price and
\* ask_price, whatever message, record, event or entry it was made from.
C24_TickHasPrice ==
    rd_tick # NoTick =>
        /\ \E price \in {rd_tick.bid_price, rd_tick.ask_price, rd_tick.trade_price} :
               price # None
        /\ (rd_tick.tick_type = "BBO" =>
               rd_tick.bid_price # None /\ rd_tick.ask_price # None)

\* A line of the text protocol that cannot be turned into a tick: no JSON,
\* JSON of another shape than an object, a price field that is no number,
\* or a message type that is not known.
NoTickFrame(frame) ==
    \/ frame.shape \in {"invalid_json", "not_object"}
    \/ /\ frame.shape = "object"
       /\ \/ frame.type \in {"heartbeat", "status"}
          \/ NotANumber \in {frame.bid, frame.ask, frame.trade}

\* C25: in the text read loop a line that cannot be turned into a tick
\* yields no tick and leaves the loop reading (no end of the generator, no
\* exception that makes the supervisor reconnect), so that a later valid
\* line is still read.
C25_BadFrameDropped ==
    (h_kind = "databento" /\ rd_count > 0 /\ NoTickFrame(rd_in)) =>
        (rd_tick = NoTick /\ rd_pc = "read")

\* ---------------------- BloombergHandler: the worker thread and its queue
\* A BloombergHandler whose supervisor has connected and subscribed: the
\* worker thread polls the session and the supervisor reads the queue.
BbgInit ==
    /\ PipeIdle
    /\ FeedIdle
    /\ ReadIdle
    /\ m_symbols = <<"ES">>
    /\ PubStarted
    /\ RouteNew(FALSE, FALSE, FALSE)
    /\ RaceIdle
    /\ pub_stop = "idle"
    /\ bb_queue = <<>>
    /\ bb_running = TRUE
    /\ bb_worker = "poll"
    /\ bb_reader = "get"
    /\ bb_disc = "idle"
    /\ bb_events = 0
    /\ bb_dropped = 0

\* queue.Queue.full()
QueueFull(q) == Len(q) >= BbgQueueSize

\* The test of "while self._running and self._session" in _read_events_sync
WorkerLoop(run) == IF run THEN "poll" ELSE "ended"

\* _read_events_sync: nextEvent gives an event with a tick and the worker
\* calls self._tick_queue.put(tick, timeout=1.0), which returns at once
\* when the queue has room and blocks when it is full.
BbgEvent ==
    /\ bb_worker = "poll"
    /\ bb_disc \in {"idle", "session_stop"}
    /\ bb_events < MaxBbgEvents
    /\ bb_events' = bb_events + 1
    /\ IF QueueFull(bb_queue)
       THEN /\ bb_worker' = "put"
            /\ UNCHANGED bb_queue
       ELSE /\ bb_queue' = Append(bb_queue, bb_events')
            /\ bb_worker' = WorkerLoop(bb_running)
    /\ UNCHANGED <<bb_running, bb_reader, bb_disc, bb_dropped, notBbg>>

\* _read_events_sync: nextEvent gives nothing and the loop test fails
BbgWorkerEnd ==
    /\ bb_worker = "poll"
    /\ ~bb_running
    /\ bb_worker' = "ended"
    /\ UNCHANGED <<bb_queue, bb_running, bb_reader, bb_disc, bb_events,
                   bb_dropped, notBbg>>

\* the worker's put gets room before its timeout
BbgPutRoom ==
    /\ bb_worker = "put"
    /\ ~QueueFull(bb_queue)
    /\ bb_queue' = Append(bb_queue, bb_events)
    /\ bb_worker' = WorkerLoop(bb_running)
    /\ UNCHANGED <<bb_running, bb_reader, bb_disc, bb_events, bb_dropped,
                   notBbg>>

\* the worker's put times out after a second: queue.Full, the tick is dropped
BbgPutTimeout ==
    /\ bb_worker = "put"
    /\ QueueFull(bb_queue)
    /\ bb_dropped' = bb_dropped + 1
    /\ bb_worker' = WorkerLoop(bb_running)
    /\ UNCHANGED <<bb_queue, bb_running, bb_reader, bb_disc, bb_events,
                   notBbg>>

\* _read_messages: self._tick_queue.get(timeout=1.0) returns an item.  None
\* ends the generator; a tick is yielded and start tests self._running
\* before it awaits on_tick.
BbgGet ==
    /\ bb_reader = "get"
    /\ bb_queue # <<>>
    /\ bb_queue' = Tail(bb_queue)
    /\ bb_reader' = IF Head(bb_queue) = None \/ ~bb_running
                    THEN "ended" ELSE "on_tick"
    /\ UNCHANGED <<bb_running, bb_worker, bb_disc, bb_events, bb_dropped,
                   notBbg>>

\* _read_messages: the get times out (queue.Empty) and the loop test fails
BbgGetTimeout ==
    /\ bb_reader = "get"
    /\ bb_queue = <<>>
    /\ ~bb_running
    /\ bb_reader' = "ended"
    /\ UNCHANGED <<bb_queue, bb_running, bb_worker, bb_disc, bb_events,
                   bb_dropped, notBbg>>

\* on_tick returns: _read_messages resumes and tests self._running
BbgOnTickReturn ==
    /\ bb_reader = "on_tick"
    /\ bb_reader' = IF bb_running THEN "get" ELSE "ended"
    /\ UNCHANGED <<bb_queue, bb_running, bb_worker, bb_disc, bb_events,
                   bb_dropped, notBbg>>

\* handler.stop()
BbgStop ==
    /\ bb_running
    /\ bb_running' = FALSE
    /\ UNCHANGED <<bb_queue, bb_worker, bb_reader, bb_disc, bb_events,
                   bb_dropped, notBbg>>

\* start has left its loop: disconnect() hands self._session.stop to the
\* executor and awaits it
BbgDisconnect ==
    /\ bb_reader = "ended"
    /\ bb_disc = "idle"
    /\ bb_disc' = "session_stop"
    /\ UNCHANGED <<bb_queue, bb_running, bb_worker, bb_reader, bb_events,
                   bb_dropped, notBbg>>

\* session.stop returns: disconnect calls self._tick_queue.put(None), on
\* the thread of the event loop and without a timeout; with room it returns
\* and disconnect ends, on a full queue it blocks until a get makes room
\* (_read_messages, the one consumer, has ended).
BbgSessionStopped ==
    /\ bb_disc = "session_stop"
    /\ IF QueueFull(bb_queue)
       THEN /\ bb_disc' = "put"
            /\ UNCHANGED bb_queue
       ELSE /\ bb_queue' = Append(bb_queue, None)
            /\ bb_disc' = "done"
    /\ UNCHANGED <<bb_running, bb_worker, bb_reader, bb_events, bb_dropped,
                   notBbg>>

BbgNext ==
    \/ BbgEvent
    \/ BbgWorkerEnd
    \/ BbgPutRoom
    \/ BbgPutTimeout
    \/ BbgGet
    \/ BbgGetTimeout
    \/ BbgOnTickReturn
    \/ BbgStop
    \/ BbgDisconnect
    \/ BbgSessionStopped

SpecBbg == BbgInit /\ [][BbgNext]_vars

\* The threads and the event loop keep running, and every timeout expires.
BbgFair ==
    /\ WF_vars(BbgWorkerEnd)
    /\ WF_vars(BbgPutRoom)
    /\ WF_vars(BbgPutTimeout)
    /\ WF_vars(BbgGet)
    /\ WF_vars(BbgGetTimeout)
    /\ WF_vars(BbgOnTickReturn)
    /\ WF_vars(BbgDisconnect)
    /\ WF_vars(BbgSessionStopped)

SpecBbgFair == SpecBbg /\ BbgFair

\* C37: the worker hands its ticks over without waiting and disconnect puts
\* its sentinel without blocking: a disconnect that was called returns,
\* also when the queue is full and nothing reads it.
C37_DisconnectReturns == (bb_disc # "idle") ~> (bb_disc = "done")

\* ------------------------------------ the supervisor, FeedHandler.start
\* The task that runs FeedHandler.start is in one of these places: "none"
\* (no task), "created" (not yet run), suspended in connect(), in the
\* re-subscribe, in the read of _read_messages, in the on_tick callback, in
\* the on_error callback, in the backoff sleep or in disconnect(), or ended:
\* "done" (start returned), "cancelled" (CancelledError left start) or
\* "never_ran" (cancelled before its first step).  The handler is
\* constructed with an on_error callback, as FeedManager does.

\* A variant of NextDelay without the cap.
NextDelayUncapped(delay) == delay * 2

\* min(self._reconnect_delay * 2, self._max_reconnect_delay)
NextDelay(delay) == Min(delay * 2, MaxReconnectDelay)

\* disconnect() awaits the closing of the writer (Databento) or the stop of
\* the session (Bloomberg) when there is one; CMEHandler.disconnect has no
\* await.
DisconnectSuspends(kind, res) == kind # "cme" /\ res

\* disconnect() forgets the writer and the transport, not the session.
ResourceAfterDisconnect(kind, res) == kind = "bloomberg" /\ res

\* The supervisor goes on to place p, the handler's connected flag and
\* resource being conn and res.
Goto(p, conn, res) ==
    /\ sup_pc' = p
    /\ h_connected' = conn
    /\ h_resource' = res
    /\ UNCHANGED disconnect_calls

\* The loop of start is left: await self.disconnect(), then
\* self._connected = False.
LeaveLoop(conn, res) ==
    /\ disconnect_calls' = 1
    /\ IF DisconnectSuspends(h_kind, res)
       THEN /\ sup_pc' = "disconnect"
            /\ h_connected' = conn
            /\ h_resource' = res
       ELSE /\ sup_pc' = "done"
            /\ h_connected' = FALSE
            /\ h_resource' = ResourceAfterDisconnect(h_kind, res)

\* The test of "while self._running" in start, run being self._running.
ContinueOrLeave(run, conn, res) ==
    IF run THEN Goto("connect", conn, res) ELSE LeaveLoop(conn, res)

\* The test of "while self._running" in _read_messages: the next read, or
\* the end of the generator and with it of the loop of start.
ReadOrLeave(run, conn, res) ==
    IF run THEN Goto("read", conn, res) ELSE LeaveLoop(conn, res)

\* "except Exception" in start, up to the call of on_error
Failure(res) ==
    /\ Goto("on_error", FALSE, res)
    /\ fails' = Min(fails + 1, MaxFails)

\* A handler as constructed, or one that was connected and subscribed to a
\* symbol before its supervisor is started (as _start_feed does).
SupInit ==
    /\ ExtIdle
    /\ PipeIdle
    /\ h_kind \in HandlerKinds
    /\ h_running = FALSE
    /\ h_connected \in BOOLEAN
    /\ h_resource = h_connected
    /\ reconnect_delay = InitialReconnectDelay
    /\ subscriptions = IF h_connected THEN <<"ES">> ELSE <<>>
    /\ h_stats = StatsReset(NoStats, subscriptions)
    /\ books = IF h_kind = "cme" THEN ToSet(subscriptions) ELSE {}
    /\ SupIdle
    /\ sub_ops = <<>>
    /\ MgrNew("databento")
    /\ StatIdle
    /\ CmeIdle

\* asyncio.create_task(handler.start())
SupSpawn ==
    /\ sup_pc = "none"
    /\ sup_pc' = "created"
    /\ UNCHANGED <<handlerVars, sup_cancel, fails, slept, disconnect_calls,
                   h_stopped, h_cancelled, notSup>>

\* start, from its first line to the await of connect()
SupStart ==
    /\ sup_pc = "created"
    /\ ~sup_cancel
    /\ h_running' = TRUE
    /\ Goto("connect", h_connected, h_resource)
    /\ UNCHANGED <<h_kind, reconnect_delay, subscriptions, h_stats, books,
                   sup_cancel, fails, slept, h_stopped, h_cancelled, notSup>>

\* connect() returns: the delay is reset; existing subscriptions are
\* subscribed again, the list being extended by itself before the request
\* is awaited (CMEHandler.subscribe has no await); then comes the read loop.
SupConnectOk ==
    /\ sup_pc = "connect"
    /\ ~sup_cancel
    /\ 2 * Len(subscriptions) <= MaxSubsLen
    /\ reconnect_delay' = InitialReconnectDelay
    /\ fails' = 0
    /\ IF subscriptions = <<>>
       THEN /\ ReadOrLeave(h_running, TRUE, TRUE)
            /\ UNCHANGED <<subscriptions, h_stats, books>>
       ELSE LET st == VendorSubscribe(h_kind, HState, subscriptions)
            IN  /\ subscriptions' = st.subs
                /\ books' = st.bks
                /\ IF h_kind = "cme"
                   THEN /\ h_stats' = st.stats
                        /\ ReadOrLeave(h_running, TRUE, TRUE)
                   ELSE /\ UNCHANGED h_stats
                        /\ Goto("subscribe", TRUE, TRUE)
    /\ UNCHANGED <<h_kind, h_running, sup_cancel, slept, h_stopped,
                   h_cancelled, notSup>>

\* Whether a connect() that raises has opened a stream before: Databento's
\* may have (authentication refused after open_connection).
OpenedOnFailure(kind) ==
    IF kind \in {"databento", "databento_binary"} THEN BOOLEAN ELSE {FALSE}

\* connect() raises
SupConnectFail ==
    /\ sup_pc = "connect"
    /\ ~sup_cancel
    /\ \E opened \in OpenedOnFailure(h_kind) : Failure(h_resource \/ opened)
    /\ UNCHANGED <<h_kind, h_running, reconnect_delay, subscriptions, h_stats,
                   books, sup_cancel, slept, h_stopped, h_cancelled, notSup>>

\* the re-subscribe returns: the stats of the symbols are made anew
SupSubscribeOk ==
    /\ sup_pc = "subscribe"
    /\ ~sup_cancel
    /\ h_stats' = StatsReset(h_stats, subscriptions)
    /\ ReadOrLeave(h_running, h_connected, h_resource)
    /\ UNCHANGED <<h_kind, h_running, reconnect_delay, subscriptions, books,
                   sup_cancel, fails, slept, h_stopped, h_cancelled, notSup>>

\* the re-subscribe raises
SupSubscribeFail ==
    /\ sup_pc = "subscribe"
    /\ ~sup_cancel
    /\ Failure(h_resource)
    /\ UNCHANGED <<h_kind, h_running, reconnect_delay, subscriptions, h_stats,
                   books, sup_cancel, slept, h_stopped, h_cancelled, notSup>>

\* _read_messages yields a tick, its stats updated before (CMEHandler yields
\* ticks of subscribed symbols only): start tests self._running and awaits
\* on_tick
SupReadTickStep ==
    /\ sup_pc = "read"
    /\ ~sup_cancel
    /\ \E sym \in FeedSymbols, seq \in ReadSeqs :
         /\ h_kind = "cme" => sym \in ToSet(subscriptions)
         /\ sym \in DOMAIN h_stats => h_stats[sym].ticks_received < MaxTicks
         /\ h_stats' = StatsAfterRead(h_kind, h_stats, sym, seq)
    /\ IF h_running
       THEN Goto("on_tick", h_connected, h_resource)
       ELSE LeaveLoop(h_connected, h_resource)
    /\ UNCHANGED <<h_kind, h_running, reconnect_delay, subscriptions,
                   books, sup_cancel, fails, slept, h_stopped, h_cancelled>>

SupReadTick == SupReadTickStep /\ UNCHANGED notSup

\* The classes whose read gives up after a while: wait_for with a timeout
\* (DatabentoHandler, CMEHandler), queue.get with a timeout
\* (BloombergHandler).  DatabentoHandlerBinary reads with readexactly.
ReadTimesOut(kind) == kind \in {"databento", "bloomberg", "cme"}

\* the read times out: _read_messages goes round its loop
SupReadTimeout ==
    /\ sup_pc = "read"
    /\ ~sup_cancel
    /\ ReadTimesOut(h_kind)
    /\ ReadOrLeave(h_running, h_connected, h_resource)
    /\ UNCHANGED <<h_kind, h_running, reconnect_delay, subscriptions, h_stats,
                   books, sup_cancel, fails, slept, h_stopped, h_cancelled,
                   notSup>>

\* data arrives that gives no tick (a heartbeat, a record that is dropped):
\* _read_messages goes round its loop
SupReadSkip ==
    /\ sup_pc = "read"
    /\ ~sup_cancel
    /\ ReadOrLeave(h_running, h_connected, h_resource)
    /\ UNCHANGED <<h_kind, h_running, reconnect_delay, subscriptions, h_stats,
                   books, sup_cancel, fails, slept, h_stopped, h_cancelled,
                   notSup>>

\* the peer closes the stream (an empty line, IncompleteReadError):
\* _read_messages ends and start goes round its loop
SupReadEof ==
    /\ sup_pc = "read"
    /\ ~sup_cancel
    /\ h_kind \in {"databento", "databento_binary"}
    /\ ContinueOrLeave(h_running, h_connected, h_resource)
    /\ UNCHANGED <<h_kind, h_running, reconnect_delay, subscriptions, h_stats,
                   books, sup_cancel, fails, slept, h_stopped, h_cancelled,
                   notSup>>

\* the read raises (connection reset): only DatabentoHandler lets the
\* exception out of _read_messages
SupReadFail ==
    /\ sup_pc = "read"
    /\ ~sup_cancel
    /\ h_kind = "databento"
    /\ Failure(h_resource)
    /\ UNCHANGED <<h_kind, h_running, reconnect_delay, subscriptions, h_stats,
                   books, sup_cancel, slept, h_stopped, h_cancelled, notSup>>

\* on_tick returns: _read_messages resumes after its yield
SupOnTickReturn ==
    /\ sup_pc = "on_tick"
    /\ ~sup_cancel
    /\ ReadOrLeave(h_running, h_connected, h_resource)
    /\ UNCHANGED <<h_kind, h_running, reconnect_delay, subscriptions, h_stats,
                   books, sup_cancel, fails, slept, h_stopped, h_cancelled,
                   notSup>>

\* on_tick raises
SupOnTickRaise ==
    /\ sup_pc = "on_tick"
    /\ ~sup_cancel
    /\ Failure(h_resource)
    /\ UNCHANGED <<h_kind, h_running, reconnect_delay, subscriptions, h_stats,
                   books, sup_cancel, slept, h_stopped, h_cancelled, notSup>>

\* on_error returns: a running handler sleeps self._reconnect_delay
SupOnErrorReturn ==
    /\ sup_pc = "on_error"
    /\ ~sup_cancel
    /\ IF h_running
       THEN /\ slept' = reconnect_delay
            /\ Goto("backoff", h_connected, h_resource)
       ELSE /\ UNCHANGED slept
            /\ LeaveLoop(h_connected, h_resource)
    /\ UNCHANGED <<h_kind, h_running, reconnect_delay, subscriptions, h_stats,
                   books, sup_cancel, fails, h_stopped, h_cancelled, notSup>>

\* the backoff sleep ends: the delay is doubled up to the cap
SupBackoffDone ==
    /\ sup_pc = "backoff"
    /\ ~sup_cancel
    /\ reconnect_delay' = NextDelay(reconnect_delay)
    /\ ContinueOrLeave(h_running, h_connected, h_resource)
    /\ UNCHANGED <<h_kind, h_running, subscriptions, h_stats, books,
                   sup_cancel, fails, slept, h_stopped, h_cancelled, notSup>>

\* disconnect() returns: start sets _connected to False and returns
SupDisconnectDone ==
    /\ sup_pc = "disconnect"
    /\ ~sup_cancel
    /\ Goto("done", FALSE, ResourceAfterDisconnect(h_kind, h_resource))
    /\ UNCHANGED <<h_kind, h_running, reconnect_delay, subscriptions, h_stats,
                   books, sup_cancel, fails, slept, h_stopped, h_cancelled,
                   notSup>>

\* The task receives CancelledError where it is suspended.  A task not yet
\* run ends without running start.  Inside the try of start the error is
\* caught: _running = False, break, disconnect.  Inside the "except
\* Exception" handler (on_error, the sleep) and inside disconnect() no
\* clause catches it: it leaves start.
SupCancelled ==
    /\ sup_cancel
    /\ sup_cancel' = FALSE
    /\ CASE sup_pc \in {"connect", "subscribe", "read", "on_tick"} ->
              /\ h_running' = FALSE
              /\ LeaveLoop(h_connected, h_resource)
         [] sup_pc \in {"on_error", "backoff", "disconnect"} ->
              /\ Goto("cancelled", h_connected, h_resource)
              /\ UNCHANGED h_running
         [] sup_pc = "created" ->
              /\ Goto("never_ran", h_connected, h_resource)
              /\ UNCHANGED h_running
    /\ UNCHANGED <<h_kind, reconnect_delay, subscriptions, h_stats, books,
                   fails, slept, h_stopped, h_cancelled, notSup>>

\* handler.stop() on a handler whose supervisor runs
HStop ==
    /\ sup_pc \notin {"none", "created", "done", "cancelled", "never_ran"}
    /\ h_running' = FALSE
    /\ h_stopped' = TRUE
    /\ UNCHANGED <<h_kind, h_connected, h_resource, reconnect_delay,
                   subscriptions, h_stats, books, sup_pc, sup_cancel, fails,
                   slept, disconnect_calls, h_cancelled, notSup>>

\* task.cancel() on the supervisor task
HCancel ==
    /\ sup_pc \notin {"none", "done", "cancelled", "never_ran"}
    /\ ~sup_cancel
    /\ sup_cancel' = TRUE
    /\ h_cancelled' = TRUE
    /\ UNCHANGED <<handlerVars, sup_pc, fails, slept, disconnect_calls,
                   h_stopped, notSup>>

\* The steps the supervisor takes by itself or that time brings about.
SupProgress ==
    \/ SupStart
    \/ SupSubscribeOk
    \/ SupReadTimeout
    \/ SupOnTickReturn
    \/ SupOnErrorReturn
    \/ SupBackoffDone
    \/ SupDisconnectDone
    \/ SupCancelled

\* The steps that depend on the peer or on the callbacks.
SupEvents ==
    \/ SupConnectOk
    \/ SupConnectFail
    \/ SupSubscribeFail
    \/ SupReadTick
    \/ SupReadSkip
    \/ SupReadEof
    \/ SupReadFail
    \/ SupOnTickRaise

SupNext ==
    \/ SupSpawn
    \/ SupProgress
    \/ SupEvents
    \/ HStop
    \/ HCancel

SpecSup == SupInit /\ [][SupNext]_vars

\* C11: the backoff sleep that follows the n-th consecutive failure since the
\* last successful connect (or since start) lasts min(2^(n-1), 60) seconds:
\* 1, 2, 4, ... and never more than 60; after a successful connect the delay
\* is back at 1 second.
C11_BackoffDoubles ==
    /\ sup_pc = "backoff" =>
          /\ fails >= 1
          /\ slept = Min(Pow2(fails - 1), MaxReconnectDelay)
    /\ slept <= MaxReconnectDelay
    /\ sup_pc \in {"subscribe", "read", "on_tick"} =>
          reconnect_delay = InitialReconnectDelay

\* The supervisor sleeps after its seventh failure in a row: 60 seconds, not
\* 64.
C11_Witness ==
    /\ sup_pc = "backoff"
    /\ fails = 7
    /\ slept = MaxReconnectDelay

\* C12: whenever the supervisor has terminated, by stop or by cancellation
\* at any suspension point, disconnect() has been called and the handler is
\* not connected.
C12_DisconnectOnExit ==
    sup_pc \in {"done", "cancelled"} =>
        /\ disconnect_calls = 1
        /\ ~h_connected

\* C29: when the supervisor re-subscribes after a connect or reconnect, the
\* handler's subscription list and its per-symbol FeedStats are the same as
\* before: no symbol is added a second time and no counter is reset.
C29_ResubscribeKeepsState ==
    [][(SupConnectOk \/ SupSubscribeOk) =>
          (subscriptions' = subscriptions /\ h_stats' = h_stats)]_vars

\* The supervisor's own steps are taken when they can be: a pending connect,
\* re-subscribe, callback, sleep or disconnect comes to an end, a read with
\* a timeout times out, a cancellation is delivered.  That the peer sends
\* data or closes the stream is not assumed.
SpecSupFair ==
    /\ SupInit
    /\ [][SupNext]_vars
    /\ WF_vars(SupProgress)
    /\ WF_vars(SupConnectOk \/ SupConnectFail)
    /\ WF_vars(SupSubscribeOk \/ SupSubscribeFail)
    /\ WF_vars(SupOnTickReturn \/ SupOnTickRaise)

\* C13: after stop is called on a running handler whose task is not
\* cancelled, the supervisor eventually terminates (having left its loops
\* and called disconnect), for every handler class and wherever it was.
C13_StopTerminates ==
    (h_stopped /\ ~h_cancelled) ~> (sup_pc = "done" \/ h_cancelled)

\* ----------------------------------------------------------- FeedManager
\* A manager with one enabled feed, constructed with a per-tick callback
\* only (no batcher, no aggregator).  Its methods are called one after the
\* other: start, then stop.  m_pc is where their caller is: "idle", in the
\* connect or the subscribe of _start_feed, "started" (start returned), in
\* the gather of stop, "stopped" (stop returned).

\* Vendor: the three vendors _create_handler knows, and one it does not.
Vendors == {"databento", "bloomberg", "cme", "ice"}

\* _create_handler: the class of the handler made for a vendor
Supported(vendor) == vendor \in {"databento", "bloomberg", "cme"}

\* FeedConfig.symbols
ConfigSymbols == <<"ES">>

MgrInit ==
    /\ ExtIdle
    /\ PipeIdle
    /\ \E vendor \in Vendors :
          /\ MgrNew(vendor)
          /\ HandlerNew(IF Supported(vendor) THEN vendor ELSE "databento")
    /\ SupIdle
    /\ sub_ops = <<>>
    /\ StatIdle
    /\ CmeIdle

\* _start_feed sets CONNECTED and creates the supervisor task; start returns
FeedStarted ==
    /\ m_state' = "CONNECTED"
    /\ m_task' = TRUE
    /\ sup_pc' = "created"
    /\ m_pc' = "started"

\* FeedManager.start up to the await of handler.connect() in _start_feed; an
\* unsupported vendor makes _create_handler raise, which _start_feed turns
\* into state ERROR
MgrStartStep ==
    /\ m_pc = "idle"
    /\ IF Supported(m_vendor)
       THEN /\ m_state' = "CONNECTING"
            /\ m_has_handler' = TRUE
            /\ m_pc' = "sf_connect"
       ELSE /\ m_state' = "ERROR"
            /\ m_pc' = "started"
            /\ UNCHANGED m_has_handler
    /\ UNCHANGED <<m_vendor, m_task, m_connect_failed, handlerVars, supVars>>

MgrStart == MgrStartStep /\ UNCHANGED notMgr

\* connect() returns in _start_feed: subscribe(config.symbols) is called;
\* CMEHandler.subscribe has no await, so the feed is started at once
MgrConnectOk ==
    /\ m_pc = "sf_connect"
    /\ h_connected' = TRUE
    /\ h_resource' = TRUE
    /\ LET st == VendorSubscribe(h_kind, HState, ConfigSymbols)
       IN  /\ subscriptions' = st.subs
           /\ books' = st.bks
           /\ IF h_kind = "cme"
              THEN /\ h_stats' = st.stats
                   /\ FeedStarted
              ELSE /\ m_pc' = "sf_subscribe"
                   /\ UNCHANGED <<h_stats, m_state, m_task, sup_pc>>
    /\ UNCHANGED <<m_vendor, m_has_handler, m_connect_failed, h_kind,
                   h_running, reconnect_delay, sup_cancel, fails, slept,
                   disconnect_calls, h_stopped, h_cancelled, notMgr>>

\* connect() raises in _start_feed: state ERROR, no task is created
MgrConnectFail ==
    /\ m_pc = "sf_connect"
    /\ \E opened \in OpenedOnFailure(h_kind) : h_resource' = opened
    /\ m_state' = "ERROR"
    /\ m_connect_failed' = TRUE
    /\ m_pc' = "started"
    /\ UNCHANGED <<m_vendor, m_has_handler, m_task, h_kind, h_running,
                   h_connected, reconnect_delay, subscriptions, h_stats,
                   books, supVars, notMgr>>

\* subscribe() returns in _start_feed
MgrSubscribeOk ==
    /\ m_pc = "sf_subscribe"
    /\ h_stats' = StatsReset(h_stats, ConfigSymbols)
    /\ FeedStarted
    /\ UNCHANGED <<m_vendor, m_has_handler, m_connect_failed, h_kind,
                   h_running, h_connected, h_resource, reconnect_delay,
                   subscriptions, books, sup_cancel, fails, slept,
                   disconnect_calls, h_stopped, h_cancelled, notMgr>>

\* subscribe() raises in _start_feed: state ERROR, no task is created
MgrSubscribeFail ==
    /\ m_pc = "sf_subscribe"
    /\ m_state' = "ERROR"
    /\ m_pc' = "started"
    /\ UNCHANGED <<m_vendor, m_has_handler, m_task, m_connect_failed,
                   handlerVars, supVars, notMgr>>

\* The supervisor task has ended.
SupEnded == sup_pc \in {"done", "cancelled", "never_ran"}

\* FeedManager.stop after the gather: "if self._buffer" and "if
\* self._aggregator"; with neither, stop returns
AfterGather ==
    IF rt_cfg.buffer \/ rt_cfg.aggregator THEN "stop_buffer" ELSE "stopped"

\* FeedManager.stop up to the await of gather: every handler is stopped and
\* its feed set to STOPPED, every task is cancelled; without tasks stop
\* returns
MgrStop ==
    /\ m_pc = "started"
    /\ IF m_has_handler
       THEN /\ h_running' = FALSE
            /\ h_stopped' = TRUE
            /\ m_state' = "STOPPED"
       ELSE UNCHANGED <<h_running, h_stopped, m_state>>
    /\ IF m_task /\ ~SupEnded
       THEN /\ sup_cancel' = TRUE
            /\ h_cancelled' = TRUE
       ELSE UNCHANGED <<sup_cancel, h_cancelled>>
    /\ m_pc' = IF m_task THEN "stop_gather" ELSE AfterGather
    /\ UNCHANGED <<m_vendor, m_has_handler, m_task, m_connect_failed, h_kind,
                   h_connected, h_resource, reconnect_delay, subscriptions,
                   h_stats, books, sup_pc, fails, slept, disconnect_calls,
                   notMgr>>

\* A stop that goes on without waiting for the cancelled task to end.
MgrStopUngathered ==
    /\ m_pc = "stop_gather"
    /\ m_pc' = AfterGather
    /\ UNCHANGED <<m_vendor, m_state, m_has_handler, m_task,
                   m_connect_failed, handlerVars, supVars, notMgr>>

\* gather returns once the task has ended: stop goes on to the batcher and
\* the aggregator, or returns
MgrStopGathered ==
    /\ m_pc = "stop_gather"
    /\ SupEnded
    /\ m_pc' = AfterGather
    /\ UNCHANGED <<m_vendor, m_state, m_has_handler, m_task,
                   m_connect_failed, handlerVars, supVars,
                   notMgr>>

MgrNext ==
    \/ MgrStart
    \/ MgrConnectOk
    \/ MgrConnectFail
    \/ MgrSubscribeOk
    \/ MgrSubscribeFail
    \/ MgrStop
    \/ MgrStopGathered
    \/ SupProgress
    \/ SupEvents

SpecMgr == MgrInit /\ [][MgrNext]_vars

\* C14: a feed in state ERROR later leaves it; once FeedManager.stop has
\* returned no feed is in state ERROR, a feed whose handler could not be
\* created included.
C14_NoErrorAfterStop == m_pc = "stopped" => m_state # "ERROR"

\* C15: the state reported for a feed is CONNECTED only while its handler
\* is connected.
C15_ConnectedMeansConnected == m_state = "CONNECTED" => h_connected

\* C16: when the first connect of a feed failed in FeedManager.start, a
\* supervisor task for the feed exists once start has returned.
C16_FailedStartHasSupervisor ==
    (m_connect_failed /\ m_pc = "started") => m_task

\* C35: every connect() of the supervisor after its first comes after the
\* handler was marked disconnected and a backoff sleep, also when the read
\* stream ended without raising.
C35_ReconnectAfterBackoff ==
    [][(sup_pc' = "connect" /\ sup_pc \notin {"connect", "created"})
          => (sup_pc = "backoff" /\ ~h_connected)]_vars

\* C34: a handler holds at most one open connection: whenever the supervisor
\* calls connect(), no connection opened earlier (by _start_feed, or by the
\* supervisor before a failure) is still held by the handler.
C34_ConnectWhenClosed ==
    [][(sup_pc' = "connect" /\ sup_pc # "connect") => ~h_resource]_vars

\* --------------------------- FeedManager.subscribe and unsubscribe
\* FeedManager.subscribe(vendor, symbols), called before start or after it:
\* with a connected handler the handler subscribes (the request being
\* taken) and the config's list is extended
MgrSubscribe(symbols) ==
    /\ m_pc \in {"idle", "started"}
    /\ Len(subscriptions) + Len(symbols) <= MaxSubsLen
    /\ Len(m_symbols) + Len(symbols) <= MaxSubsLen
    /\ IF m_has_handler /\ h_connected
       THEN LET st == VendorSubscribe(h_kind, HState, symbols)
            IN  /\ subscriptions' = st.subs
                /\ h_stats' = st.stats
                /\ books' = st.bks
                /\ m_symbols' = m_symbols \o symbols
       ELSE UNCHANGED <<subscriptions, h_stats, books, m_symbols>>
    /\ UNCHANGED <<pipeVars, sub_ops, h_kind, h_running, h_connected, h_resource,
                   reconnect_delay, supVars, mgrVars, statVars, cmeVars,
                   notCfg>>

\* FeedManager.unsubscribe(vendor, symbols): with a connected handler the
\* handler unsubscribes
MgrUnsubscribe(symbols) ==
    /\ m_pc \in {"idle", "started"}
    /\ IF m_has_handler /\ h_connected
       THEN LET st == VendorUnsubscribe(h_kind, HState, symbols)
            IN  /\ subscriptions' = st.subs
                /\ h_stats' = st.stats
                /\ books' = st.bks
       ELSE UNCHANGED <<subscriptions, h_stats, books>>
    /\ UNCHANGED <<pipeVars, sub_ops, h_kind, h_running, h_connected, h_resource,
                   reconnect_delay, supVars, mgrVars, statVars, cmeVars,
                   m_symbols, notCfg>>

\* start with its outcomes, and subscribe and unsubscribe calls before and
\* after it; the supervisor task that start creates has not run yet.
MgrSubsNext ==
    \/ MgrStart
    \/ MgrConnectOk
    \/ MgrConnectFail
    \/ MgrSubscribeOk
    \/ MgrSubscribeFail
    \/ \E symbols \in SymbolLists : MgrSubscribe(symbols)
    \/ \E symbols \in SymbolLists : MgrUnsubscribe(symbols)

SpecMgrSubs == MgrInit /\ [][MgrSubsNext]_vars

\* The number of times x occurs in the list xs.
Occurrences(xs, x) == Cardinality({i \in 1 .. Len(xs) : xs[i] = x})

\* C30: on a connected feed, subscribe(vendor, S) makes the handler
\* subscribe S and appends S to the config's symbol list, and
\* unsubscribe(vendor, S) makes the handler unsubscribe S and removes S
\* from the config's symbol list; on a feed whose handler is missing or not
\* connected both leave the handler and the config as they are.
C30_ConfigFollowsSubscriptions ==
    [][\A S \in SymbolLists :
          /\ MgrSubscribe(S) =>
                IF m_has_handler /\ h_connected
                THEN /\ HState' = VendorSubscribe(h_kind, HState, S)
                     /\ m_symbols' = m_symbols \o S
                ELSE HState' = HState /\ m_symbols' = m_symbols
          /\ MgrUnsubscribe(S) =>
                IF m_has_handler /\ h_connected
                THEN /\ HState' = VendorUnsubscribe(h_kind, HState, S)
                     /\ \A x \in ToSet(S) :
                           Occurrences(m_symbols, x) > 0 =>
                               Occurrences(m_symbols', x) < Occurrences(m_symbols, x)
                ELSE HState' = HState /\ m_symbols' = m_symbols]_vars

\* ------------------------------------- FeedManager with its pipeline
\* A FeedManager with one feed, constructed with or without on_batch (the
\* batcher) and on_tick, with or without an aggregator: start, the
\* supervisor of the feed calling _handle_tick for each tick it reads, the
\* flush timer of the batcher, stop.  The supervisor is producer "h1" of
\* the batcher.  rt_pc is where _handle_tick is: before a stage ("push",
\* "callback", "aggregator"), awaiting on_batch inside push ("in_sink") or
\* the per-tick callback ("in_callback"), about to return or to raise.
\* Only "in_sink" and "in_callback" are suspension points: at the others
\* no other task runs.

\* The ticks the feed delivers: trades in the first and in the second bar.
RouteTicks == {AggTick(ts, "ES", <<2, None, None, 1>>) : ts \in {0, TimeframeNs}}

\* The vendors of the feed: CME, whose subscribe has no await, and one that
\* is not supported.
FanVendors == {"cme", "ice"}

\* The ring buffers and batch sizes of the batcher.
FanCapacities == {2}
FanBatchSizes == {1, 2}

FanInit ==
    /\ ReadIdle
    /\ m_symbols = <<"ES">>
    /\ PubStarted
    /\ MoreIdle
    /\ \E buffer \in BOOLEAN, on_tick \in BOOLEAN, aggregator \in BOOLEAN :
          RouteNew(buffer, on_tick, aggregator)
    /\ rb_requested \in FanCapacities
    /\ ring = RingNew(rb_requested)
    /\ batch_size \in FanBatchSizes
    /\ RingHistIdle
    /\ BufStart
    /\ AggStart
    /\ \E vendor \in FanVendors :
          /\ MgrNew(vendor)
          /\ HandlerNew(IF Supported(vendor) THEN vendor ELSE "databento")
    /\ SupIdle
    /\ sub_ops = <<>>
    /\ StatIdle
    /\ CmeIdle

\* What the steps of _handle_tick and of the batcher leave alone on the
\* feed side.
fanFeed == <<handlerVars, supVars, sub_ops, mgrVars, statVars, cmeVars, notRoute>>

\* _handle_tick is at a position that is no suspension point.
RouteBusy ==
    /\ sup_pc = "on_tick"
    /\ rt_pc \in {"push", "callback", "aggregator", "return", "raise"}

\* FeedManager.stop is at a position that is no suspension point.
StopBusy ==
    \/ m_pc \in {"stop_buffer", "flush_aggregator"}
    \/ m_pc = "in_buffer_stop" /\ stop_pc \in {"done", "raised"}

\* Another task may run.
Quiet == ~RouteBusy /\ ~StopBusy

\* An entry of the history of _handle_tick: tick is the number of the
\* call; ev is "call", or how the stage ended ("true" and "false" being
\* the value push returned).
LogEntry(stage, ev) == [tick |-> m_total_ticks, stage |-> stage, ev |-> ev]

\* FeedManager.start: the batcher is started first, then the feed
FanStart ==
    /\ MgrStartStep
    /\ IF rt_cfg.buffer
       THEN StartStep
       ELSE UNCHANGED <<ring, bufVars>>
    /\ UNCHANGED <<ringHist, aggVars, sub_ops, statVars, cmeVars, extVars>>

\* _read_messages yields a tick and start awaits on_tick, which is
\* _handle_tick: self._total_ticks += 1
HandleTick ==
    /\ m_total_ticks < MaxRouted
    /\ SupReadTickStep
    /\ IF h_running
       THEN /\ m_total_ticks' = m_total_ticks + 1
            /\ \E tick \in RouteTicks : rt_tick' = tick
            /\ rt_pc' = "push"
       ELSE UNCHANGED <<m_total_ticks, rt_tick, rt_pc>>
    /\ UNCHANGED <<rt_cfg, rt_log, pipeVars, sub_ops, mgrVars, statVars,
                   cmeVars, notRoute>>

\* _handle_tick after push returned a value that drops the tick's routing
\* when the batcher dropped the tick.
AfterPushStopOnDrop(ok) == IF ok THEN "callback" ELSE "return"

\* _handle_tick after "await self._buffer.push(tick)": the value push
\* returned is not looked at
AfterPush(ok) == "callback"

\* _handle_tick: if self._buffer: await self._buffer.push(tick), up to the
\* return of push or to the await of on_batch inside it
RoutePush ==
    /\ sup_pc = "on_tick"
    /\ rt_pc = "push"
    /\ IF rt_cfg.buffer
       THEN /\ PushStep("h1")
            /\ IF pc'["h1"] = "in_sink"
               THEN /\ rt_pc' = "in_sink"
                    /\ rt_log' = Append(rt_log, LogEntry("batcher", "call"))
               ELSE /\ rt_pc' = AfterPush(accepted' # accepted)
                    /\ rt_log' = rt_log \o
                          << LogEntry("batcher", "call"),
                             LogEntry("batcher", IF accepted' # accepted
                                                 THEN "true" ELSE "false") >>
       ELSE /\ rt_pc' = "callback"
            /\ UNCHANGED <<ring, bufVars, rt_log>>
    /\ UNCHANGED <<rt_cfg, m_total_ticks, rt_tick, ringHist, aggVars, fanFeed>>

\* on_batch returns inside push: push returns True
RoutePushSinkReturn ==
    /\ sup_pc = "on_tick"
    /\ rt_pc = "in_sink"
    /\ ~sup_cancel
    /\ PushSinkReturnStep("h1")
    /\ rt_pc' = AfterPush(TRUE)
    /\ rt_log' = Append(rt_log, LogEntry("batcher", "true"))
    /\ UNCHANGED <<rt_cfg, m_total_ticks, rt_tick, ringHist, aggVars, fanFeed>>

\* on_batch raises inside push: the exception leaves push and _handle_tick
RoutePushSinkRaise ==
    /\ sup_pc = "on_tick"
    /\ rt_pc = "in_sink"
    /\ ~sup_cancel
    /\ PushSinkRaiseStep("h1")
    /\ rt_pc' = "raise"
    /\ rt_log' = Append(rt_log, LogEntry("batcher", "raise"))
    /\ UNCHANGED <<rt_cfg, m_total_ticks, rt_tick, ringHist, aggVars, fanFeed>>

\* _handle_tick: if self._on_tick: await self._on_tick(tick)
RouteCallback ==
    /\ sup_pc = "on_tick"
    /\ rt_pc = "callback"
    /\ IF rt_cfg.on_tick
       THEN /\ rt_pc' = "in_callback"
            /\ rt_log' = Append(rt_log, LogEntry("callback", "call"))
       ELSE /\ rt_pc' = "aggregator"
            /\ UNCHANGED rt_log
    /\ UNCHANGED <<rt_cfg, m_total_ticks, rt_tick, pipeVars, fanFeed>>

\* the per-tick callback returns
RouteCallbackReturn ==
    /\ sup_pc = "on_tick"
    /\ rt_pc = "in_callback"
    /\ ~sup_cancel
    /\ rt_pc' = "aggregator"
    /\ rt_log' = Append(rt_log, LogEntry("callback", "return"))
    /\ UNCHANGED <<rt_cfg, m_total_ticks, rt_tick, pipeVars, fanFeed>>

\* the per-tick callback raises: the exception leaves _handle_tick
RouteCallbackRaise ==
    /\ sup_pc = "on_tick"
    /\ rt_pc = "in_callback"
    /\ ~sup_cancel
    /\ rt_pc' = "raise"
    /\ rt_log' = Append(rt_log, LogEntry("callback", "raise"))
    /\ UNCHANGED <<rt_cfg, m_total_ticks, rt_tick, pipeVars, fanFeed>>

\* _handle_tick: if self._aggregator: await self._aggregator.process_tick(tick)
RouteAggregator ==
    /\ sup_pc = "on_tick"
    /\ rt_pc = "aggregator"
    /\ IF rt_cfg.aggregator
       THEN /\ ProcessTickStep(rt_tick)
            /\ rt_log' = rt_log \o << LogEntry("aggregator", "call"),
                                      LogEntry("aggregator", "return") >>
       ELSE UNCHANGED <<aggVars, rt_log>>
    /\ rt_pc' = "return"
    /\ UNCHANGED <<rt_cfg, m_total_ticks, rt_tick, ringVars, bufVars, fanFeed>>

\* _handle_tick returns to start
RouteReturn ==
    /\ rt_pc = "return"
    /\ SupOnTickReturn

\* _handle_tick raises into start
RouteRaise ==
    /\ rt_pc = "raise"
    /\ SupOnTickRaise

\* FeedManager.stop after the gather: if self._buffer: await
\* self._buffer.stop(), up to the first await of TickBuffer.stop
MgrStopBuffer ==
    /\ m_pc = "stop_buffer"
    /\ IF rt_cfg.buffer
       THEN /\ StopBeginStep
            /\ m_pc' = "in_buffer_stop"
       ELSE /\ m_pc' = "flush_aggregator"
            /\ UNCHANGED <<ring, bufVars>>
    /\ UNCHANGED <<m_vendor, m_state, m_has_handler, m_task, m_connect_failed,
                   ringHist, aggVars, handlerVars, supVars, sub_ops, statVars,
                   cmeVars, extVars>>

\* TickBuffer.stop raised: FeedManager.stop raises
MgrStopRaised ==
    /\ m_pc = "in_buffer_stop"
    /\ stop_pc = "raised"
    /\ m_pc' = "stop_raised"
    /\ UNCHANGED <<m_vendor, m_state, m_has_handler, m_task, m_connect_failed,
                   pipeVars, handlerVars, supVars, sub_ops, statVars,
                   cmeVars, extVars>>

\* FeedManager.stop after the batcher: if self._aggregator: await
\* self._aggregator.flush_all(); stop returns
MgrFlushAggregator ==
    /\ \/ m_pc = "flush_aggregator"
       \/ m_pc = "in_buffer_stop" /\ stop_pc = "done"
    /\ IF rt_cfg.aggregator
       THEN FlushAllStep
       ELSE UNCHANGED aggVars
    /\ m_pc' = "stopped"
    /\ UNCHANGED <<m_vendor, m_state, m_has_handler, m_task, m_connect_failed,
                   ringVars, bufVars, handlerVars, supVars, sub_ops, statVars,
                   cmeVars, extVars>>

\* The steps of _handle_tick.
RouteNext ==
    \/ RoutePush
    \/ RoutePushSinkReturn
    \/ RoutePushSinkRaise
    \/ RouteCallback
    \/ RouteCallbackReturn
    \/ RouteCallbackRaise
    \/ RouteAggregator
    \/ RouteReturn
    \/ RouteRaise

\* The steps of the supervisor outside _handle_tick; connect fails up to
\* MaxFanFails times in a row.  A CMEHandler reads from a queue: its read
\* neither ends nor raises, and its disconnect has no await.
FanSupNext ==
    \/ SupStart
    \/ SupConnectOk
    \/ fails < MaxFanFails /\ SupConnectFail
    \/ HandleTick
    \/ SupReadTimeout
    \/ SupReadSkip
    \/ SupOnErrorReturn
    \/ SupBackoffDone
    \/ SupCancelled

\* The steps of the flush timer of the batcher and of TickBuffer.stop.
FanBufNext ==
    \/ TimerFire
    \/ TimerSinkReturn
    \/ TimerSinkRaise
    \/ TimerCancelled
    \/ StopFinalFlush
    \/ StopSinkReturn
    \/ StopSinkRaise

\* The steps of the caller of start and stop.
FanMgrNext ==
    \/ FanStart
    \/ MgrConnectOk
    \/ MgrConnectFail
    \/ MgrStop
    \/ MgrStopGathered

FanNext ==
    \/ RouteNext
    \/ MgrStopBuffer
    \/ MgrStopRaised
    \/ MgrFlushAggregator
    \/ Quiet /\ FanSupNext
    \/ Quiet /\ FanBufNext
    \/ Quiet /\ FanMgrNext

SpecFan == FanInit /\ [][FanNext]_vars

\* The three stages of _handle_tick in the order of the claim, and whether
\* the manager is configured with each.
StageRank(stage) ==
    CASE stage = "batcher" -> 1 [] stage = "callback" -> 2 [] stage = "aggregator" -> 3

Configured(stage) ==
    CASE stage = "batcher" -> rt_cfg.buffer
      [] stage = "callback" -> rt_cfg.on_tick
      [] stage = "aggregator" -> rt_cfg.aggregator

RouteStages == {"batcher", "callback", "aggregator"}

\* What was done with the n-th tick passed to _handle_tick.
LogOf(n) == SelectSeq(rt_log, LAMBDA e : e.tick = n)

\* The stage was offered the tick and returned (push returning True or
\* False).
StageDone(l, stage) ==
    \E i \in 1 .. Len(l) - 1 :
        /\ l[i] = [tick |-> l[i].tick, stage |-> stage, ev |-> "call"]
        /\ l[i + 1].stage = stage
        /\ l[i + 1].ev \in {"true", "false", "return"}

\* A stage is offered the tick only if it is configured, at most once, and
\* only after every configured earlier stage was offered it and returned;
\* how a stage ended is recorded right after its call.
StagesInOrder(l) ==
    \A i \in 1 .. Len(l) :
        /\ Configured(l[i].stage)
        /\ IF l[i].ev = "call"
           THEN /\ \A j \in 1 .. i - 1 : StageRank(l[j].stage) < StageRank(l[i].stage)
                /\ \A s \in RouteStages :
                      Configured(s) /\ StageRank(s) < StageRank(l[i].stage)
                          => StageDone(SubSeq(l, 1, i - 1), s)
           ELSE /\ i > 1
                /\ l[i - 1].stage = l[i].stage
                /\ l[i - 1].ev = "call"

\* C22: every tick passed to _handle_tick (the supervisor's on_tick call)
\* adds exactly one to total_ticks, and total_ticks changes in no other
\* way; the tick is offered to the batcher, then to the per-tick callback,
\* then to the aggregator, each only if configured and only after the
\* stages before it have returned; when _handle_tick returns, every
\* configured stage was offered the tick and returned, the batcher having
\* counted it and the aggregator having it as its last tick, whether push
\* returned True or False (the tick dropped).  A stage that raises, or the
\* cancellation of the supervisor, ends the routing: no stage has
\* completed after which the next could start.
C22_RoutedInOrder ==
    /\ [](/\ \A n \in 1 .. m_total_ticks : StagesInOrder(LogOf(n))
          /\ \A i \in 1 .. Len(rt_log) : rt_log[i].tick \in 1 .. m_total_ticks
          /\ (sup_pc = "on_tick" /\ rt_pc = "return") =>
                /\ \A s \in RouteStages :
                      Configured(s) => StageDone(LogOf(m_total_ticks), s)
                /\ rt_cfg.buffer => stats.ticks_received = m_total_ticks
                /\ rt_cfg.aggregator =>
                      agg_call = "process_tick" /\ agg_tick = rt_tick)
    /\ [][/\ (sup_pc # "on_tick" /\ sup_pc' = "on_tick")
              <=> m_total_ticks' = m_total_ticks + 1
          /\ m_total_ticks' \in {m_total_ticks, m_total_ticks + 1}
          /\ \A i \in 1 .. Len(rt_log) : rt_log'[i] = rt_log[i]]_vars

\* All three stages are configured, the batcher dropped the tick (its
\* ring being full), and the callback and the aggregator got it.
C22_Witness ==
    /\ sup_pc = "on_tick"
    /\ rt_pc = "return"
    /\ rt_cfg = [buffer |-> TRUE, on_tick |-> TRUE, aggregator |-> TRUE]
    /\ RingIsFull(ring)
    /\ stats.ticks_dropped = 1
    /\ m_total_ticks = 2
    /\ LogOf(2) = << [tick |-> 2, stage |-> "batcher", ev |-> "call"],
                     [tick |-> 2, stage |-> "batcher", ev |-> "false"],
                     [tick |-> 2, stage |-> "callback", ev |-> "call"],
                     [tick |-> 2, stage |-> "callback", ev |-> "return"],
                     [tick |-> 2, stage |-> "aggregator", ev |-> "call"],
                     [tick |-> 2, stage |-> "aggregator", ev |-> "return"] >>

\* C23: FeedManager.stop does its steps in order: the handler is stopped
\* before its task is cancelled; TickBuffer.stop begins only once the
\* handler is stopped and the supervisor task has ended; flush_all runs
\* only once the supervisor task has ended and TickBuffer.stop has
\* returned.  Once stop has returned the supervisor task has ended, the
\* flush timer of the batcher has ended, a feed that has a handler is
\* STOPPED, the aggregator holds no current bar, and nothing more happens:
\* no tick reaches the per-tick callback, no batch on_batch, no bar on_bar.
C23_StopInOrder ==
    /\ [](m_pc = "stopped" =>
             /\ m_task => SupEnded
             /\ m_has_handler => m_state = "STOPPED" /\ h_stopped /\ ~h_running
             /\ rt_cfg.buffer => stop_pc = "done" /\ flush_task = "cancelled"
             /\ bars = <<>>
             /\ \A t \in Tasks \ {"h1"} : held[t] = <<>>)
    /\ [][/\ (sup_cancel' /\ ~sup_cancel) => h_stopped'
          /\ (stop_pc = "idle" /\ stop_pc' # "idle") =>
                /\ m_has_handler => h_stopped
                /\ m_task => SupEnded
          /\ agg_epoch' # agg_epoch =>
                /\ m_task => SupEnded
                /\ rt_cfg.buffer => stop_pc = "done"
                /\ m_pc' = "stopped"
          /\ m_pc = "stopped" =>
                /\ rt_log' = rt_log
                /\ sunk' = sunk
                /\ emitted' = emitted
                /\ m_state' = m_state
                /\ sup_pc' = sup_pc]_vars

\* stop has returned in a manager with batcher, callback and aggregator
\* whose supervisor was cancelled after routing a tick: the final flush
\* of the batcher delivered a batch and flush_all a bar.
C23_Witness ==
    /\ m_pc = "stopped"
    /\ rt_cfg = [buffer |-> TRUE, on_tick |-> TRUE, aggregator |-> TRUE]
    /\ m_state = "STOPPED"
    /\ h_cancelled
    /\ sup_pc = "done"
    /\ m_total_ticks >= 1
    /\ batch_size = 2
    /\ stats.batches_flushed = 1
    /\ Len(sunk) = 1
    /\ agg_call = "flush_all"
    /\ Len(emitted) = 1
    /\ emitted[1].epoch = 0

\* ----------------------------------------------------- RedisPublisher
\* A started publisher with its client (self._redis is set by connect and
\* never cleared).  Messages are named by their enqueue number.  A flush
\* holds _batch_lock from taking the batch to the end of pipe.execute();
\* publishers and the flush loop wait for the lock meanwhile.

\* A publisher that puts the failed batch back in front of the queue.
BatchAfterFailureRequeued(batch, failed) == failed \o batch

\* What is in self._batch after a pipeline failed: the failed batch was
\* taken out before the pipeline was built and is not put back.
BatchAfterFailure(batch, failed) == batch

PubInit ==
    /\ PipeIdle
    /\ FeedIdle
    /\ ExtIdle

\* A _flush_locked that builds its pipeline and leaves self._batch as it is.
FlushLockedKeeping(who, batch) ==
    IF batch = <<>>
    THEN /\ pub_batch' = batch
         /\ UNCHANGED <<pub_lock, pub_inflight>>
    ELSE /\ pub_batch' = batch
         /\ pub_inflight' = batch
         /\ pub_lock' = who

\* _flush_locked up to the await of pipe.execute(), by task who
FlushLocked(who, batch) ==
    IF batch = <<>>
    THEN /\ pub_batch' = batch
         /\ UNCHANGED <<pub_lock, pub_inflight>>
    ELSE /\ pub_batch' = <<>>
         /\ pub_inflight' = batch
         /\ pub_lock' = who

\* publish_tick / publish_bar: _enqueue takes the lock, appends, and flushes
\* inline when the batch is full
PubEnqueue ==
    /\ pub_lock = "free"
    /\ pub_enqueued < MaxMessages
    /\ pub_enqueued' = pub_enqueued + 1
    /\ LET batch == Append(pub_batch, pub_enqueued + 1)
       IN  IF Len(batch) >= PubBatchSize
           THEN FlushLocked("publisher", batch)
           ELSE /\ pub_batch' = batch
                /\ UNCHANGED <<pub_lock, pub_inflight>>
    /\ UNCHANGED <<pub_connected, pub_published, pub_errors, pub_flushes,
                   pub_issued, pub_lost, pub_recon, notPub>>

\* _flush_loop wakes up and calls _flush with something in the batch
PubTimerFlush ==
    /\ pub_lock = "free"
    /\ pub_batch # <<>>
    /\ FlushLocked("timer", pub_batch)
    /\ UNCHANGED <<pub_connected, pub_published, pub_errors, pub_flushes,
                   pub_enqueued, pub_issued, pub_lost, pub_recon, notPub>>

\* pipe.execute() returns
PubExecuteOk ==
    /\ pub_lock # "free"
    /\ pub_published' = pub_published + Len(pub_inflight)
    /\ pub_flushes' = pub_flushes + 1
    /\ pub_issued' = pub_issued \o pub_inflight
    /\ pub_inflight' = <<>>
    /\ pub_lock' = "free"
    /\ UNCHANGED <<pub_connected, pub_batch, pub_errors, pub_enqueued,
                   pub_lost, pub_recon, notPub>>

\* pipe.execute() raises ConnectionError, OSError or RedisError
PubExecuteFail ==
    /\ pub_lock # "free"
    /\ pub_recon.created + pub_recon.ping + pub_recon.sleep < MaxReconnects
    /\ pub_errors' = pub_errors + Len(pub_inflight)
    /\ pub_connected' = FALSE
    /\ pub_recon' = [pub_recon EXCEPT !.created = @ + 1]
    /\ pub_lost' = pub_lost \o pub_inflight
    /\ pub_batch' = BatchAfterFailure(pub_batch, pub_inflight)
    /\ pub_inflight' = <<>>
    /\ pub_lock' = "free"
    /\ UNCHANGED <<pub_published, pub_flushes, pub_enqueued, pub_issued,
                   notPub>>

\* a _reconnect task runs its first step: it returns if the publisher is
\* connected, and else enters connect(), which awaits the ping
ReconStart ==
    /\ pub_recon.created > 0
    /\ pub_recon' = IF pub_connected
                    THEN [pub_recon EXCEPT !.created = @ - 1]
                    ELSE [pub_recon EXCEPT !.created = @ - 1, !.ping = @ + 1]
    /\ UNCHANGED <<pub_connected, pub_batch, pub_lock, pub_inflight,
                   pub_published, pub_errors, pub_flushes, pub_enqueued,
                   pub_issued, pub_lost, notPub>>

\* connect(): the broker answers the ping
ReconPingOk ==
    /\ pub_recon.ping > 0
    /\ pub_connected' = TRUE
    /\ pub_recon' = [pub_recon EXCEPT !.ping = @ - 1]
    /\ UNCHANGED <<pub_batch, pub_lock, pub_inflight, pub_published,
                   pub_errors, pub_flushes, pub_enqueued, pub_issued,
                   pub_lost, notPub>>

\* connect(): the ping fails and the retry sleep begins
ReconPingFail ==
    /\ pub_recon.ping > 0
    /\ pub_recon' = [pub_recon EXCEPT !.ping = @ - 1, !.sleep = @ + 1]
    /\ UNCHANGED <<pub_connected, pub_batch, pub_lock, pub_inflight,
                   pub_published, pub_errors, pub_flushes, pub_enqueued,
                   pub_issued, pub_lost, notPub>>

\* connect(): the retry sleep ends, a new client is made and pinged
ReconSleepDone ==
    /\ pub_recon.sleep > 0
    /\ pub_recon' = [pub_recon EXCEPT !.sleep = @ - 1, !.ping = @ + 1]
    /\ UNCHANGED <<pub_connected, pub_batch, pub_lock, pub_inflight,
                   pub_published, pub_errors, pub_flushes, pub_enqueued,
                   pub_issued, pub_lost, notPub>>

PubNext ==
    \/ PubEnqueue
    \/ PubTimerFlush
    \/ PubExecuteOk
    \/ PubExecuteFail
    \/ ReconStart
    \/ ReconPingOk
    \/ ReconPingFail
    \/ ReconSleepDone

SpecPub == PubInit /\ [][PubNext]_vars

\* C26: a pipelined publish that fails leaves the publisher disconnected,
\* adds exactly the size of the failed batch to publish_errors, leaves
\* messages_published and flushes alone, and starts a reconnect; the failed
\* messages are not queued or issued again; while the publisher is
\* disconnected a reconnect is under way, and it sets connected when the
\* broker answers its ping.
C26_FailedPublish ==
    /\ [][PubExecuteFail =>
            /\ ~pub_connected'
            /\ pub_errors' = pub_errors + Len(pub_inflight)
            /\ pub_published' = pub_published
            /\ pub_flushes' = pub_flushes
            /\ pub_recon'.created = pub_recon.created + 1]_vars
    /\ [][ReconPingOk => pub_connected']_vars
    /\ [](/\ ToSet(pub_lost) \cap (ToSet(pub_batch) \cup ToSet(pub_inflight)
                                     \cup ToSet(pub_issued)) = {}
          /\ pub_errors = Len(pub_lost)
          /\ pub_published = Len(pub_issued)
          /\ (~pub_connected =>
                 pub_recon.created + pub_recon.ping + pub_recon.sleep > 0))

\* A full batch was lost in a failed pipeline, the reconnect has been
\* answered, and a later batch was published.
C26_Witness ==
    /\ pub_errors = PubBatchSize
    /\ pub_lost = <<1, 2>>
    /\ pub_connected
    /\ pub_issued = <<3, 4>>
    /\ pub_recon = [created |-> 0, ping |-> 0, sleep |-> 0]

\* A publish_tick / publish_bar call returns: _enqueue has appended without
\* a flush, or the flush it made inline has ended.
PublishReturns ==
    \/ PubEnqueue /\ pub_lock' = "free"
    \/ pub_lock = "publisher" /\ pub_lock' = "free"

\* C38: the messages are issued in the order they were enqueued, each at
\* most once, whatever the interleaving of inline flushes, timer flushes and
\* publishers; and when a publish call returns, fewer than batch_size
\* messages are pending.
C38_IssuedInOrderOnce ==
    /\ [](\A i, j \in 1 .. Len(pub_issued) : i < j => pub_issued[i] < pub_issued[j])
    /\ [][PublishReturns => Len(pub_batch') < PubBatchSize]_vars

\* A timer flush issued one message and an inline flush the next two, and a
\* fourth message is pending.
C38_Witness ==
    /\ pub_issued = <<1, 2, 3>>
    /\ pub_flushes = 2
    /\ pub_batch = <<4>>
    /\ pub_lock = "free"

\* C39: at most one reconnect attempt (a _reconnect task inside the retry
\* loop of connect) is in progress at any time.
C39_OneReconnect == pub_recon.ping + pub_recon.sleep <= 1

\* ------------------------------------------------- RedisPublisher.stop
\* stop, up to the lock of its final _flush: _running = False, and both
\* loops are cancelled and awaited.  A flush loop cancelled inside
\* pipe.execute() leaves _flush_locked with CancelledError, which its except
\* clause does not catch: the lock is released and the batch it took is gone.
PubStopBegin ==
    /\ pub_stop = "idle"
    /\ pub_stop' = "flush"
    /\ IF pub_lock = "timer"
       THEN pub_lock' = "free" /\ pub_inflight' = <<>>
       ELSE UNCHANGED <<pub_lock, pub_inflight>>
    /\ UNCHANGED <<pub_connected, pub_batch, pub_published, pub_errors,
                   pub_flushes, pub_enqueued, pub_issued, pub_lost, pub_recon,
                   notPubStop>>

\* stop: the final _flush gets the lock and runs _flush_locked
PubStopFlush ==
    /\ pub_stop = "flush"
    /\ pub_lock = "free"
    /\ pub_stop' = "close"
    /\ FlushLocked("stop", pub_batch)
    /\ UNCHANGED <<pub_connected, pub_published, pub_errors, pub_flushes,
                   pub_enqueued, pub_issued, pub_lost, pub_recon, notPubStop>>

\* stop: the final flush has ended; self._redis.aclose() is awaited,
\* _connected is set to False and stop returns
PubStopClose ==
    /\ pub_stop = "close"
    /\ pub_lock # "stop"
    /\ pub_stop' = "done"
    /\ pub_connected' = FALSE
    /\ UNCHANGED <<pub_batch, pub_lock, pub_inflight, pub_published,
                   pub_errors, pub_flushes, pub_enqueued, pub_issued,
                   pub_lost, pub_recon, notPubStop>>

\* The publisher with its stop; no publish call is made once stop is called.
PubStopNext ==
    \/ pub_stop = "idle" /\ PubEnqueue
    \/ pub_stop = "idle" /\ PubTimerFlush
    \/ PubExecuteOk
    \/ PubExecuteFail
    \/ ReconStart
    \/ ReconPingOk
    \/ ReconPingFail
    \/ ReconSleepDone
    \/ PubStopBegin
    \/ PubStopFlush
    \/ PubStopClose

SpecPubStop == PubInit /\ [][PubStopNext]_vars

\* C40: once stop has returned the pending batch is empty and the publisher
\* is disconnected and stays so, also when a reconnect was in progress at
\* the time stop was called.
C40_StoppedStaysDown ==
    pub_stop = "done" => (pub_batch = <<>> /\ ~pub_connected)
====
